---- MODULE Spec2Model ----
(***************************************************************************)
(* Session engine of the Claude Telegram bot: the ClaudeSession object     *)
(* (session.ts), the CLI subprocess it drives, the decode loop of          *)
(* sendMessageStreaming, and the Telegram handlers that call it.           *)
(*                                                                         *)
(* JavaScript runs one handler continuation at a time; control changes     *)
(* hands only at an await.  Every action below is the code between two     *)
(* awaits of one handler (or one event of the subprocess).                 *)
(***************************************************************************)
EXTENDS Integers, Sequences, FiniteSets, TLC

(* ------------------------------ bounds --------------------------------- *)

\* handler invocations (Telegram updates) in one behaviour
MaxTasks == 2
\* subprocesses spawned in one behaviour
MaxSpawns == 2
\* stdout lines one query reads: under Spec, and under SpecQuery and SpecDecode
MaxCoarseLines == 1
MaxLines == 3
\* stderr chunks one subprocess writes
MaxStderr == 1
\* saves of one behaviour: under SpecStore, and under SpecSessions
MaxSaves == 6
MaxSessionSaves == 3

\* messages the queue of the session holds before it answers "Queue full"
MaxQueue == 2

\* steps of the clock of the text updates
MaxTicks == 6

(* ------------------------- program constants --------------------------- *)

\* currentSegmentText.length > 20
MIN_TEXT_LENGTH == 20
\* const MAX_RETRIES = 1
MAX_RETRIES == 1
\* const MAX_SESSIONS = 5
MAX_SESSIONS == 5

NULL == "null"

\* childProcess: ChildProcess | null = null
NoProc == 0

Tasks == 1..MaxTasks

Sids == {"s1", "s2"}

MsgIds == {"m1", "m2"}

WORKING_DIR == "d1"

(* ------------------------------ texts ---------------------------------- *)

\* A text of n characters; a cumulative block of the stream is a prefix of
\* the block's final text, so a text is given by its length.
Text(n) == [i \in 1..n |-> i]

\* String.prototype.slice(start)
Slice(text, start) == SubSeq(text, start + 1, Len(text))

\* cumulative lengths below and above the minimum length of a text update
TextLengths == {1, MIN_TEXT_LENGTH + 1, MIN_TEXT_LENGTH + 2}

\* texts a result event, an error field or a stderr chunk may carry
TooLong == "prompt is too long"

Aborted == "Request was aborted"

PROMPT_TOO_LONG_PATTERNS == {TooLong}

isPromptTooLong(text) == text \in PROMPT_TOO_LONG_PATTERNS

\* String(error).includes("abort") || String(error).includes("cancel")
includesCancel(err) == err.kind = "Query cancelled" \/ err.msg = Aborted

\* String(error).includes("exited with code")
includesExitedWithCode(err) == err.kind = "exited with code"

NoError == [kind |-> NULL, msg |-> ""]

(* --------------------------- stream events ----------------------------- *)

ThinkingBlocks == {[type |-> "thinking", len |-> n, id |-> 0, ask |-> FALSE] : n \in {1, 2}}

TextBlocks == {[type |-> "text", len |-> n, id |-> 0, ask |-> FALSE] : n \in TextLengths}

\* ask: block.name.startsWith("mcp__ask-user")
\* tool_use 1 is a plain tool, tool_use 2 the ask-user tool
ToolBlocks == {[type |-> "tool_use", len |-> 0, id |-> 1, ask |-> FALSE], [type |-> "tool_use", len |-> 0, id |-> 2, ask |-> TRUE]}

Blocks == ThinkingBlocks \cup TextBlocks \cup ToolBlocks

\* block positions of an assistant event
Positions == {0, 1}

ShortText == [type |-> "text", len |-> 1, id |-> 0, ask |-> FALSE]

\* the content of an assistant event: one block, or a short text next to a
\* tool_use
Contents == {<<b>> : b \in Blocks} \cup {<<ShortText, b>> : b \in ToolBlocks}

NonJsonLine == [type |-> "garbage"]

MetaEvent(s) == [type |-> "system", session_id |-> s]

AssistantEvent(m, c) == [type |-> "assistant", id |-> m, content |-> c]

ResultEvent(r, e, x) == [type |-> "result", result |-> r, is_error |-> e, error |-> x]

\* the lines of SpecDecode: every assistant event, and a plain result
FineEvents == {AssistantEvent(m, c) : m \in MsgIds, c \in Contents} \cup {ResultEvent("ok", FALSE, "")}

\* the lines of SpecQuery: every kind of line and of result, few contents
QueryEvents == {NonJsonLine, MetaEvent("s1"), AssistantEvent("m1", <<ShortText>>), AssistantEvent("m1", <<[type |-> "tool_use", len |-> 0, id |-> 2, ask |-> TRUE], ShortText>>)} \cup {ResultEvent(r, e, "") : r \in {"ok", TooLong}, e \in BOOLEAN} \cup {ResultEvent("", TRUE, Aborted)}

\* the lines of Spec
CoarseEvents == {MetaEvent("s2"), AssistantEvent("m1", <<ShortText>>), ResultEvent("ok", FALSE, "")}

(* ------------------------------ state ---------------------------------- *)

VARIABLES session, query, procs, askFiles, history, task

vars == <<session, query, procs, askFiles, history, task>>

\* the fields of ClaudeSession after construction
NewSession == [sessionId |-> NULL, lastError |-> NULL, currentTool |-> NULL, conversationTitle |-> NULL, lastMessage |-> NULL, workingDir |-> WORKING_DIR, childProcess |-> NoProc, isQueryRunning |-> FALSE, stopRequested |-> FALSE, isProcessing |-> FALSE, wasInterruptedByNewMessage |-> FALSE, lastActivity |-> NULL, contextPercent |-> NULL, queue |-> <<>>, queryStarted |-> NULL]

NoEvent == [type |-> "none"]

\* no block is left to decode
NoRest == [content |-> <<>>, i |-> 0, elapsed |-> FALSE]

\* the locals of one sendMessageStreaming call; poll is the ask request whose
\* keyboard is being sent, dir the listing the poll goes through, rest the
\* blocks the content loop has left to decode when it comes back from that.  The fields from emits on are
\* history kept for the properties: emits (the statusCallback calls made),
\* stopped (stop() killed this query's subprocess), readAfterStop (an event
\* was decoded after that), toolSeen (tool_use ids on decoded lines),
\* boundaries (the tool_use ids that closed a segment), stopPending (a stop
\* handler was answered "pending" and no call has followed), calledAfterStop
\* (this call is the one that followed), lastEvent (the event decoded last),
\* replayed (its text and thinking blocks repeated those of the event before
\* it) and segmentAtTool (each tool_use id with whether the segment held text
\* when the id was processed), presented (the ask requests whose keyboard
\* this call has sent), interruptPending and calledAfterInterrupt (as
\* stopPending and calledAfterStop, for the stop of a message with the "!"
\* prefix), interrupted (that stop killed this query's subprocess),
\* pendingStop and calledAfterPending (as stopPending and calledAfterStop,
\* for every caller of stop())
NoQuery == [pc |-> "none", pid |-> NoProc, watch |-> NoProc, lines |-> 0, currentSegmentId |-> 0, currentSegmentText |-> <<>>, responseParts |-> <<>>, lastTextUpdate |-> 0, askUserTriggered |-> FALSE, resultText |-> "", promptTooLong |-> FALSE, currentMsgId |-> NULL, processedBlockLengths |-> [i \in Positions |-> 0], processedToolIds |-> {}, stderrChunks |-> <<>>, poll |-> NULL, dir |-> {}, rest |-> NoRest, emits |-> <<>>, ret |-> NULL, err |-> NoError, stopped |-> FALSE, readAfterStop |-> FALSE, toolSeen |-> {}, boundaries |-> <<>>, stopPending |-> FALSE, calledAfterStop |-> FALSE, lastEvent |-> NoEvent, replayed |-> FALSE, segmentAtTool |-> {}, presented |-> <<>>, interruptPending |-> FALSE, calledAfterInterrupt |-> FALSE, interrupted |-> FALSE, pendingStop |-> FALSE, calledAfterPending |-> FALSE]

\* a query is in flight from the spawn of its subprocess to its return or throw
InFlightPcs == {"reading", "presenting", "waitclose", "exitcheck", "returning"}

InFlight(t) == query[t].pc \in InFlightPcs

isActive(s) == s.sessionId # NULL

isRunning(s) == s.isQueryRunning \/ s.isProcessing

\* the mutable world one step of the engine reads and writes
World == [s |-> session, qs |-> query, procs |-> procs, files |-> askFiles, hist |-> history]

Commit(w) == /\ session' = w.s
             /\ query' = w.qs
             /\ procs' = w.procs
             /\ askFiles' = w.files
             /\ history' = w.hist

SetQ(w, t, q) == [w EXCEPT !.qs[t] = q]

emit(q, kind, content, seg) == [q EXCEPT !.emits = Append(@, [kind |-> kind, content |-> content, seg |-> seg])]

(* ------------------------ session.ts helpers --------------------------- *)

Min(a, b) == IF a < b THEN a ELSE b

\* the ask-user request files of the temp directory
ReqIds == {"r1"}

\* kill(): clear session_id
kill(s) == [s EXCEPT !.sessionId = NULL, !.lastActivity = NULL, !.conversationTitle = NULL]

clearStopRequested(s) == [s EXCEPT !.stopRequested = FALSE]

\* queueMessage({ctx}): the message of handler t is appended unless the queue
\* is full; the call returns whether it was
queueMessage(s, t) == IF Len(s.queue) >= MaxQueue THEN s ELSE [s EXCEPT !.queue = Append(@, t)]

\* dequeueMessage(): the queue without its first message, if it has one
dequeueMessage(s) == IF s.queue = <<>> THEN s ELSE [s EXCEPT !.queue = Tail(@)]

\* markInterrupt()
markInterrupt(s) == [s EXCEPT !.wasInterruptedByNewMessage = TRUE]

\* consumeInterruptFlag(): the flag it returns is s.wasInterruptedByNewMessage
consumeInterruptFlag(s) == [s EXCEPT !.wasInterruptedByNewMessage = FALSE, !.stopRequested = IF s.wasInterruptedByNewMessage THEN FALSE ELSE @]

startProcessing(s) == [s EXCEPT !.isProcessing = TRUE]

stopProcessing(s) == [s EXCEPT !.isProcessing = FALSE]

\* killProcessTree(pid): SIGTERM to the group, or taskkill /T /F; a process
\* that is already dead is left as it is
killProcessTree(ps, pid) == IF ps[pid].state = "alive" THEN [ps EXCEPT ![pid].killed = TRUE] ELSE ps

\* what stop() returns
stopResult(s) == IF s.isQueryRunning /\ s.childProcess # NoProc THEN "stopped" ELSE IF s.isProcessing THEN "pending" ELSE "false"

\* stop() that kills the subprocess and leaves the stop flag as it is
stopKeepsFlag(w) == CASE stopResult(w.s) = "stopped" -> [w EXCEPT !.procs = killProcessTree(@, w.s.childProcess), !.qs[w.procs[w.s.childProcess].owner].stopped = TRUE]
                      [] stopResult(w.s) = "pending" -> [w EXCEPT !.s.stopRequested = TRUE, !.qs = [u \in Tasks |-> [w.qs[u] EXCEPT !.pendingStop = TRUE]]]
                      [] OTHER -> w

\* stop()
stop(w) == CASE stopResult(w.s) = "stopped" -> [w EXCEPT !.s.stopRequested = TRUE, !.procs = killProcessTree(@, w.s.childProcess), !.qs[w.procs[w.s.childProcess].owner].stopped = TRUE]
             [] stopResult(w.s) = "pending" -> [w EXCEPT !.s.stopRequested = TRUE, !.qs = [u \in Tasks |-> [w.qs[u] EXCEPT !.pendingStop = TRUE]]]
             [] OTHER -> w

\* index of the history entry of a session id, 0 when there is none
findIndex(sessions, sid) == IF \E i \in 1..Len(sessions) : sessions[i].session_id = sid THEN CHOOSE i \in 1..Len(sessions) : sessions[i].session_id = sid /\ \A j \in 1..(i - 1) : sessions[j].session_id # sid ELSE 0

\* the history file with a sessions list
ValidFile(sessions, clock) == [kind |-> "valid", sessions |-> sessions, clock |-> clock]

\* loadSessionHistory(): a missing file, an empty file and a file that is not
\* JSON load as an empty list; any other JSON text is returned as parsed, and
\* hasList tells whether the parsed value has a sessions list
loadSessionHistory(file) == IF file.kind = "valid" THEN [hasList |-> TRUE, sessions |-> file.sessions]
                            ELSE IF file.kind = "no_sessions" THEN [hasList |-> FALSE, sessions |-> <<>>]
                            ELSE [hasList |-> TRUE, sessions |-> <<>>]

\* an existing entry is dropped and the new one added at the head
upsertMoveToFront(sessions, newSession) == <<newSession>> \o SelectSeq(sessions, LAMBDA e : e.session_id # newSession.session_id)

\* every save adds an entry at the head
upsertAlwaysUnshift(sessions, newSession) == <<newSession>> \o sessions

\* history.sessions[existingIndex] = newSession, or unshift(newSession)
upsert(sessions, newSession) == LET existingIndex == findIndex(sessions, newSession.session_id)
                                IN IF existingIndex # 0 THEN [sessions EXCEPT ![existingIndex] = newSession] ELSE <<newSession>> \o sessions

\* nothing is dropped
truncateNever(sessions) == sessions

\* history.sessions.slice(0, MAX_SESSIONS)
truncate(sessions) == SubSeq(sessions, 1, Min(Len(sessions), MAX_SESSIONS))

\* saveSession(): nothing without a session id; the entry is stamped with the
\* clock (a history field of the file, the time of the last save); a loaded
\* value without sessions list makes findIndex throw, which is caught and
\* leaves the file as it is
saveSession(w) == IF w.s.sessionId = NULL THEN w ELSE LET loaded == loadSessionHistory(w.hist)
                                                           newSession == [session_id |-> w.s.sessionId, saved_at |-> w.hist.clock + 1, working_dir |-> w.s.workingDir, title |-> IF w.s.conversationTitle = NULL THEN "Untitled session" ELSE w.s.conversationTitle]
                                                       IN IF ~loaded.hasList THEN w ELSE [w EXCEPT !.hist = ValidFile(truncate(upsert(loaded.sessions, newSession)), w.hist.clock + 1)]

\* getSessionList(): the entries of the working directory; filter throws on a
\* loaded value without sessions list
getSessionList(s, file) == LET loaded == loadSessionHistory(file)
                           IN IF ~loaded.hasList THEN [threw |-> TRUE, sessions |-> <<>>]
                              ELSE [threw |-> FALSE, sessions |-> SelectSeq(loaded.sessions, LAMBDA e : e.working_dir = s.workingDir)]

\* a JSON number and a JSON string, by their decimal text
Num(digits) == [type |-> "number", digits |-> digits]

Str(digits) == [type |-> "string", digits |-> digits]

\* String(value)
String(v) == v.digits

\* the chat the bot serves
chatId == Num("1")

\* the request files the ask-user tool may write, in directory order
Requests == <<"r1", "r2", "r3", "r4">>

\* what the tool writes besides the status: r2 gives the chat id as a string,
\* r3 is a request of another chat, r4 has no options
RequestData(r) == CASE r = "r1" -> [chat_id |-> Num("1"), options |-> TRUE]
                    [] r = "r2" -> [chat_id |-> Str("1"), options |-> TRUE]
                    [] r = "r3" -> [chat_id |-> Num("2"), options |-> TRUE]
                    [] OTHER -> [chat_id |-> Num("1"), options |-> FALSE]

\* String(data.chat_id) === String(chatId)
sameChat(a, b) == String(a) = String(b)

\* every pending request is taken, whatever its chat
eligibleAnyChat(files, r, chat) == files[r] = "pending" /\ RequestData(r).options

\* the three tests a file passes before its keyboard is sent
eligible(files, r, chat) == files[r] = "pending" /\ sameChat(RequestData(r).chat_id, chat) /\ RequestData(r).options

\* the temp directory itself, among the files: "ok" or "unreadable"
TmpDir == "tmpdir"

\* readdirSync(tmp) returns; it throws when the directory cannot be read
readable(files) == TmpDir \notin DOMAIN files \/ files[TmpDir] = "ok"

\* what the poll holds when readdirSync has thrown
Threw == "threw"

\* readdirSync(tmp): the request files there are
readdir(files) == {r \in DOMAIN files : files[r] \in {"pending", "sent"}}

\* the for loop of checkPendingAskUserRequests from position from of the
\* listing on, up to its next await of ctx.reply: the position of the request
\* whose keyboard is being sent, 0 when the loop has ended
nextRequest(files, dir, chat, from) == LET found == {i \in from..Len(Requests) : Requests[i] \in dir /\ eligible(files, Requests[i], chat)}
                                       IN IF found = {} THEN 0 ELSE CHOOSE i \in found : \A k \in found : i <= k

\* checkPendingAskUserRequests() up to its first await of ctx.reply: the
\* listing, and the request whose keyboard is being sent, NULL when there is
\* none
checkPendingAskUserRequests(files, chat) == LET dir == readdir(files)
                                                i == nextRequest(files, dir, chat, 1)
                                            IN IF ~readable(files) THEN [dir |-> {}, r |-> Threw] ELSE [dir |-> dir, r |-> IF i = 0 THEN NULL ELSE Requests[i]]

\* the three attempts after an ask-user tool_use
RECURSIVE pollAskUser(_, _, _)
pollAskUser(files, chat, attempt) == IF attempt >= 3 THEN [dir |-> {}, r |-> NULL] ELSE LET poll == checkPendingAskUserRequests(files, chat) IN IF poll.r # NULL THEN poll ELSE pollAskUser(files, chat, attempt + 1)

\* data.status = "sent"; writeFileSync(filepath, JSON.stringify(data))
markSent(files, r) == [files EXCEPT ![r] = "sent"]

(* ------------------- sendMessageStreaming: decoding -------------------- *)

\* the per-message tracking reset at every event
newTurnEveryEvent(q, msgId) == [q EXCEPT !.currentMsgId = msgId, !.processedBlockLengths = NoQuery.processedBlockLengths]

\* a new message id is noted and the lengths of the turn before it are kept
newTurnKeepsLengths(q, msgId) == [q EXCEPT !.currentMsgId = msgId]

\* a new message id starts a new assistant turn: the per-message tracking is
\* reset
newTurn(q, msgId) == IF msgId # q.currentMsgId THEN [q EXCEPT !.currentMsgId = msgId, !.processedBlockLengths = NoQuery.processedBlockLengths] ELSE q

\* no tool_use id is ever taken as processed
hasProcessedToolNever(q, id) == FALSE

\* processedToolIds.has(id)
hasProcessedTool(q, id) == id \in q.processedToolIds

\* the segment is ended and its id kept for the next one
endSegmentSameId(q, id) == IF q.currentSegmentText # <<>>
                           THEN [emit(q, "segment_end", q.currentSegmentText, q.currentSegmentId) EXCEPT !.currentSegmentText = <<>>, !.boundaries = Append(@, id)]
                           ELSE q

\* the current text segment is ended at a tool_use
endSegment(q, id) == IF q.currentSegmentText # <<>>
                     THEN [emit(q, "segment_end", q.currentSegmentText, q.currentSegmentId) EXCEPT !.currentSegmentId = @ + 1, !.currentSegmentText = <<>>, !.boundaries = Append(@, id)]
                     ELSE q

\* one block of an assistant event, at position i of its content
ProcessBlock(w, t, block, i, elapsed) == LET q == w.qs[t]
                                             prevLen == q.processedBlockLengths[i]
                                         IN CASE block.type = "thinking" /\ block.len > 0 ->
                                                   IF block.len > prevLen
                                                   THEN SetQ(w, t, emit([q EXCEPT !.processedBlockLengths[i] = block.len], "thinking", Text(block.len), -1))
                                                   ELSE w
                                              [] block.type = "text" /\ block.len > 0 ->
                                                   IF block.len > prevLen
                                                   THEN LET delta == Slice(Text(block.len), prevLen)
                                                            q1 == [q EXCEPT !.processedBlockLengths[i] = block.len, !.responseParts = @ \o delta, !.currentSegmentText = @ \o delta]
                                                            throttleOpen == (q.lastTextUpdate = 0 \/ elapsed) /\ Len(q1.currentSegmentText) > MIN_TEXT_LENGTH
                                                        IN SetQ(w, t, IF throttleOpen THEN [emit(q1, "text", q1.currentSegmentText, q1.currentSegmentId) EXCEPT !.lastTextUpdate = 1] ELSE q1)
                                                   ELSE w
                                              [] block.type = "tool_use" /\ block.id # 0 ->
                                                   IF ~hasProcessedTool(q, block.id)
                                                   THEN LET q1 == [q EXCEPT !.processedToolIds = @ \cup {block.id}, !.processedBlockLengths[i] = 1, !.segmentAtTool = @ \cup {<<block.id, q.currentSegmentText # <<>> >>}]
                                                            q2 == endSegment(q1, block.id)
                                                            q3 == IF ~block.ask THEN emit(q2, "tool", <<block.id>>, -1) ELSE q2
                                                            poll == IF block.ask THEN pollAskUser(w.files, chatId, 0) ELSE [dir |-> {}, r |-> NULL]
                                                            q4 == CASE poll.r = NULL -> q3
                                                                    [] poll.r = Threw -> [q3 EXCEPT !.poll = Threw]
                                                                    [] OTHER -> [q3 EXCEPT !.poll = poll.r, !.dir = poll.dir, !.presented = Append(@, poll.r)]
                                                        IN [w EXCEPT !.qs[t] = q4, !.s.currentTool = "tool"]
                                                   ELSE w
                                              [] OTHER -> w

\* for (let i = 0; i < content.length; i++): the loop is left where a poll
\* awaits ctx.reply, the blocks still to decode kept in rest
RECURSIVE ProcessContent(_, _, _, _, _)
ProcessContent(w, t, content, i, elapsed) == IF i >= Len(content) THEN w
                                             ELSE LET next(w1) == CASE w1.qs[t].poll = NULL -> ProcessContent(w1, t, content, i + 1, elapsed)
                                                                    [] w1.qs[t].poll = Threw -> [w1 EXCEPT !.qs[t].pc = "throwing"]
                                                                    [] OTHER -> [w1 EXCEPT !.qs[t].pc = "presenting", !.qs[t].rest = [content |-> content, i |-> i + 1, elapsed |-> elapsed]]
                                                  IN next(ProcessBlock(w, t, content[i + 1], i, elapsed))

\* a finally block that keeps the subprocess
finallyKeepsChild(w) == [w EXCEPT !.s.isQueryRunning = FALSE, !.s.queryStarted = NULL, !.s.currentTool = NULL]

\* finally { ... }
finally(w) == [w EXCEPT !.s.isQueryRunning = FALSE, !.s.childProcess = NoProc, !.s.queryStarted = NULL, !.s.currentTool = NULL]

\* done is reported before a final segment_end
emitDoneEarly(q) == IF q.currentSegmentText # <<>> /\ ~q.promptTooLong /\ ~q.askUserTriggered
                    THEN emit(emit(q, "done", <<>>, -1), "segment_end", q.currentSegmentText, q.currentSegmentId + 1)
                    ELSE emit(q, "done", <<>>, -1)

\* await statusCallback("done", "")
emitDone(q) == emit(q, "done", <<>>, -1)

\* the code after the try statement, up to the last statusCallback
finish(w, t) == LET q == w.qs[t]
                    s1 == [w.s EXCEPT !.lastActivity = "now", !.lastError = NULL]
                IN CASE q.promptTooLong -> [w EXCEPT !.s = kill(s1), !.qs[t] = [emitDone(q) EXCEPT !.pc = "returning", !.ret = "context_limit"]]
                     [] ~q.promptTooLong /\ q.askUserTriggered -> [w EXCEPT !.s = s1, !.qs[t] = [emitDone(q) EXCEPT !.pc = "returning", !.ret = "waiting"]]
                     [] OTHER -> LET q1 == IF q.currentSegmentText # <<>> THEN emit(q, "segment_end", q.currentSegmentText, q.currentSegmentId) ELSE q
                                 IN [w EXCEPT !.s = s1, !.qs[t] = [emitDone(q1) EXCEPT !.pc = "returning", !.ret = "response"]]

\* catch (error) { ... } finally { ... }
catch(w, t, error) == LET isCleanupError == includesCancel(error)
                      IN IF isCleanupError /\ (w.s.stopRequested \/ w.qs[t].askUserTriggered)
                         THEN finish(finally(w), t)
                         ELSE finally([w EXCEPT !.s.lastError = error.kind, !.qs[t].pc = "thrown", !.qs[t].err = error])

\* the exit code check without its test of askUserTriggered
exitCheckAskUnseen(w, t) == LET cp == w.s.childProcess
                                exitCode == IF cp = NoProc THEN NULL ELSE w.procs[cp].exitCode
                                stderr == IF w.qs[t].stderrChunks = <<>> THEN "" ELSE w.qs[t].stderrChunks[1]
                            IN IF exitCode \notin {NULL, "0"} /\ ~w.s.stopRequested
                               THEN catch(w, t, [kind |-> "exited with code", msg |-> stderr])
                               ELSE finish(finally(w), t)

\* the exit code check after the process has closed
exitCheck(w, t) == LET cp == w.s.childProcess
                       exitCode == IF cp = NoProc THEN NULL ELSE w.procs[cp].exitCode
                       stderr == IF w.qs[t].stderrChunks = <<>> THEN "" ELSE w.qs[t].stderrChunks[1]
                   IN IF exitCode \notin {NULL, "0"} /\ ~w.s.stopRequested /\ ~w.qs[t].askUserTriggered
                      THEN catch(w, t, [kind |-> "exited with code", msg |-> stderr])
                      ELSE finish(finally(w), t)

\* the wait for the close event of this.childProcess after the read loop
afterLoop(w, t) == LET cp == w.s.childProcess
                   IN IF cp = NoProc \/ w.procs[cp].exitCode # NULL
                      THEN exitCheck(w, t)
                      ELSE [w EXCEPT !.qs[t].pc = "waitclose", !.qs[t].watch = cp]

\* the session id of every event is taken
captureAlways(w, session_id) == saveSession([w EXCEPT !.s.sessionId = session_id])

\* if (event.session_id && !this.sessionId) { this.sessionId = ...; this.saveSession() }
captureSessionId(w, session_id) == IF w.s.sessionId = NULL THEN saveSession([w EXCEPT !.s.sessionId = session_id]) ELSE w

\* the body of the read loop for one parsed line
decodeEvent(w, t, event, elapsed) ==
    LET w1 == IF event.type = "system" THEN captureSessionId(w, event.session_id) ELSE w
    IN CASE event.type = "assistant" ->
              LET w2 == [w1 EXCEPT !.qs[t] = newTurn(@, event.id)]
                  decoded(w3) == CASE w3.qs[t].pc = "presenting" -> w3
                                   [] w3.qs[t].pc = "throwing" -> catch([w3 EXCEPT !.qs[t].poll = NULL], t, [kind |-> "ENOENT", msg |-> ""])
                                   [] OTHER -> IF w3.qs[t].askUserTriggered THEN afterLoop(w3, t) ELSE w3
              IN decoded(ProcessContent(w2, t, event.content, 0, elapsed))
         [] event.type = "result" ->
              LET w2 == [w1 EXCEPT !.qs[t].resultText = event.result, !.qs[t].promptTooLong = @ \/ isPromptTooLong(event.result)]
                  errorMsg == IF event.error # "" THEN event.error ELSE IF event.result # "" THEN event.result ELSE "Unknown CLI error"
              IN IF event.is_error THEN catch([w2 EXCEPT !.qs[t].promptTooLong = @ \/ isPromptTooLong(errorMsg)], t, [kind |-> "CLI error", msg |-> errorMsg]) ELSE w2
         [] OTHER -> w1

\* the event is of the turn of the event before it, and each of its text and
\* thinking blocks has the content that event had at the same position
isReplay(event, last) == /\ event.type = "assistant"
                         /\ last.type = "assistant"
                         /\ event.id = last.id
                         /\ \E i \in 1..Len(event.content) : event.content[i].type \in {"text", "thinking"}
                         /\ \A i \in 1..Len(event.content) : event.content[i].type \in {"text", "thinking"} => i <= Len(last.content) /\ last.content[i] = event.content[i]

\* the tool_use ids an event shows
toolIdsOf(event) == IF event.type = "assistant" THEN {event.content[i].id : i \in {j \in 1..Len(event.content) : event.content[j].type = "tool_use"}} ELSE {}

\* sendMessageStreaming() from its call to its first await: cancelled before
\* the start, or the subprocess is spawned
sendMessageStreaming(w, t) == LET w0 == [w EXCEPT !.qs = [u \in Tasks |-> [w.qs[u] EXCEPT !.stopPending = FALSE, !.interruptPending = FALSE, !.pendingStop = FALSE]]]
                                  q0 == [NoQuery EXCEPT !.calledAfterStop = w.qs[t].stopPending, !.calledAfterInterrupt = w.qs[t].interruptPending, !.calledAfterPending = w.qs[t].pendingStop]
                              IN IF w.s.stopRequested
                                 THEN [w0 EXCEPT !.s.stopRequested = FALSE, !.qs[t] = [q0 EXCEPT !.pc = "thrown", !.err = [kind |-> "Query cancelled", msg |-> ""]]]
                                 ELSE [w0 EXCEPT !.procs = Append(@, [state |-> "alive", exitCode |-> NULL, killed |-> FALSE, owner |-> t, resume |-> w.s.sessionId, cwd |-> w.s.workingDir]),
                                                 !.s.childProcess = Len(w.procs) + 1,
                                                 !.s.isQueryRunning = TRUE,
                                                 !.s.queryStarted = "now",
                                                 !.s.stopRequested = FALSE,
                                                 !.s.currentTool = NULL,
                                                 !.qs[t] = [q0 EXCEPT !.pc = "reading", !.pid = Len(w.procs) + 1]]

\* the call spawns nothing, or a subprocess is left within the bound
CanCall == session.stopRequested \/ Len(procs) < MaxSpawns

(* ---------------------- sendMessageStreaming: steps -------------------- *)

\* the world after one line of the subprocess has been read and decoded
lineRead(t, event, elapsed) == LET w0 == [World EXCEPT !.qs[t].lines = @ + 1]
                                   w1 == [w0 EXCEPT !.qs[t].toolSeen = @ \cup toolIdsOf(event), !.qs[t].readAfterStop = @ \/ (query[t].stopped /\ event.type # "garbage"),
                                                    !.qs[t].replayed = isReplay(event, query[t].lastEvent), !.qs[t].lastEvent = IF event.type = "garbage" THEN @ ELSE event]
                               IN IF session.stopRequested THEN afterLoop(w0, t) ELSE decodeEvent(w1, t, event, elapsed)

\* for await (const line of rl): one line is read
ReadLine(t, event, elapsed) == /\ query[t].pc = "reading"
                               /\ Commit(lineRead(t, event, elapsed))
                               /\ UNCHANGED task

\* the position of request r in the listing order
position(r) == CHOOSE i \in 1..Len(Requests) : Requests[i] = r

\* ctx.reply has returned in checkPendingAskUserRequests: the request is
\* marked sent and the for loop goes on; at its end the rest of the content
\* is decoded and the read loop is left
PollMark(t) == /\ query[t].pc = "presenting"
               /\ LET rest == query[t].rest
                      files == markSent(askFiles, query[t].poll)
                      i == nextRequest(files, query[t].dir, chatId, position(query[t].poll) + 1)
                      w1 == [World EXCEPT !.files = files, !.qs[t].poll = NULL, !.qs[t].dir = {}, !.qs[t].rest = NoRest, !.qs[t].askUserTriggered = TRUE, !.qs[t].pc = "reading"]
                      decoded(w2) == IF w2.qs[t].pc = "presenting" THEN w2 ELSE afterLoop(w2, t)
                  IN IF i # 0
                     THEN Commit([World EXCEPT !.files = files, !.qs[t].poll = Requests[i], !.qs[t].presented = Append(@, Requests[i])])
                     ELSE Commit(decoded(ProcessContent(w1, t, rest.content, rest.i, rest.elapsed)))
               /\ UNCHANGED task

\* the stdout of the subprocess ends: it has exited, or its exit is not yet
\* known to the parent
StreamEnd(t) == /\ query[t].pc = "reading"
                /\ Commit(afterLoop(World, t))
                /\ UNCHANGED task

\* the close listener has fired
AfterClose(t) == /\ query[t].pc = "exitcheck"
                 /\ Commit(exitCheck(World, t))
                 /\ UNCHANGED task

\* the last statusCallback has returned: the call returns to the handler
ReturnQuery(t) == /\ query[t].pc = "returning"
                  /\ query' = [query EXCEPT ![t].pc = "returned"]
                  /\ UNCHANGED <<session, procs, askFiles, history, task>>

(* ----------------------------- subprocess ------------------------------ *)

\* the exit codes a subprocess can end with; NULL: ended by a signal
ExitCodes(p) == IF procs[p].killed THEN {NULL, "0", "1"} ELSE {"0", "1"}

ProcExit(p, code) == /\ p \in 1..Len(procs)
                     /\ procs[p].state = "alive"
                     /\ code \in ExitCodes(p)
                     /\ procs' = [procs EXCEPT ![p].state = "exited", ![p].exitCode = code]
                     /\ UNCHANGED <<session, query, askFiles, history, task>>

\* the close event: listeners registered on this process are resolved
ProcClose(p) == /\ p \in 1..Len(procs)
                /\ procs[p].state = "exited"
                /\ procs' = [procs EXCEPT ![p].state = "closed"]
                /\ query' = [t \in Tasks |-> IF query[t].pc = "waitclose" /\ query[t].watch = p THEN [query[t] EXCEPT !.pc = "exitcheck"] ELSE query[t]]
                /\ UNCHANGED <<session, askFiles, history, task>>

StderrTexts == {TooLong, "warning"}

\* childProcess.stderr.on("data")
StderrData(t, text) == /\ query[t].pc \in {"reading", "presenting", "waitclose"}
                       /\ procs[query[t].pid].state # "closed"
                       /\ Len(query[t].stderrChunks) < MaxStderr
                       /\ query' = [query EXCEPT ![t].stderrChunks = Append(@, text), ![t].promptTooLong = @ \/ isPromptTooLong(text)]
                       /\ UNCHANGED <<session, procs, askFiles, history, task>>

\* the ask-user tool of a live subprocess writes its request file
McpAskUser(r) == /\ askFiles[r] = "absent"
                 /\ \E p \in 1..Len(procs) : procs[p].state = "alive"
                 /\ askFiles' = [askFiles EXCEPT ![r] = "pending"]
                 /\ UNCHANGED <<session, query, procs, history, task>>

(* ------------------------------ handlers ------------------------------- *)

\* resubmitted is kept for the properties: what the retry loop resubmitted
\* the message after ("crash", or "stop" when stop() had killed the query)
\* req is the ask request of a pressed option button
NewTask == [kind |-> NULL, pc |-> "new", attempt |-> 0, resubmitted |-> "no", req |-> NULL, notice |-> FALSE, spawnsBefore |-> 0, msg |-> 0, submitted |-> <<>>, dir |-> NULL]

\* updates are taken in the order of their slots
Fresh(t) == task[t].pc = "new" /\ \A u \in 1..(t - 1) : task[u].pc # "new"

Goto(t, kind, pc) == task' = [task EXCEPT ![t].kind = kind, ![t].pc = pc]

\* sequentialize(): plain messages of one chat run one after the other
Sequential == \A u \in Tasks : task[u].kind \in {"text", "voice"} => task[u].pc = "done"

\* the handlers that run the body of handleText: a plain message, the Retry
\* button, a message with the "!" prefix
TextKinds == {"text", "retry", "bang"}

\* handleText from the test of session.isRunning to the "Processing..." reply
acceptText(t, kind) == /\ IF isRunning(session)
                          THEN /\ session' = queueMessage(session, IF task[t].msg = 0 THEN t ELSE task[t].msg)
                               /\ task' = [task EXCEPT ![t].kind = kind, ![t].pc = "done", ![t].msg = 0]
                          ELSE /\ session' = startProcessing([session EXCEPT !.lastMessage = "message", !.conversationTitle = IF isActive(session) THEN @ ELSE "title"])
                               /\ task' = [task EXCEPT ![t].kind = kind, ![t].pc = "call", ![t].submitted = Append(@, IF task[t].msg = 0 THEN t ELSE task[t].msg)]
                       /\ UNCHANGED <<query, procs, askFiles, history>>

\* handleText (kind "text"), or handleRetry calling it (kind "retry"), up to
\* the "Processing..." reply
handleText(t, kind) == /\ Fresh(t)
                       /\ kind \in {"text", "retry"}
                       /\ kind = "text" => Sequential
                       /\ kind = "retry" => session.lastMessage # NULL
                       /\ acceptText(t, kind)

\* handleText of a message with the "!" prefix, up to the sleep of
\* checkInterrupt: a running query is marked as interrupted and stopped
checkInterrupt(t) == /\ Fresh(t)
                     /\ IF isRunning(session)
                        THEN /\ LET w == [World EXCEPT !.s = markInterrupt(@)]
                                IN Commit(CASE stopResult(session) = "pending" -> [stop(w) EXCEPT !.qs = [u \in Tasks |-> [query[u] EXCEPT !.interruptPending = TRUE, !.pendingStop = TRUE]]]
                                            [] stopResult(session) = "stopped" -> [stop(w) EXCEPT !.qs[procs[session.childProcess].owner].interrupted = TRUE]
                                            [] OTHER -> w)
                             /\ Goto(t, "bang", "sleep")
                        ELSE Goto(t, "bang", "checked") /\ UNCHANGED <<session, query, procs, askFiles, history>>

\* checkInterrupt after its sleep
InterruptWake(t) == /\ task[t].kind = "bang"
                    /\ task[t].pc = "sleep"
                    /\ session' = clearStopRequested(session)
                    /\ Goto(t, "bang", "checked")
                    /\ UNCHANGED <<query, procs, askFiles, history>>

\* handleText after checkInterrupt has returned the message without prefix
InterruptText(t) == /\ task[t].kind = "bang"
                    /\ task[t].pc = "checked"
                    /\ acceptText(t, "bang")

TextCall(t) == /\ task[t].kind \in TextKinds
               /\ task[t].pc = "call"
               /\ CanCall
               /\ Commit(sendMessageStreaming(World, t))
               /\ Goto(t, task[t].kind, "await")

TextReturn(t) == /\ task[t].kind \in TextKinds
                 /\ task[t].pc = "await"
                 /\ query[t].pc = "returned"
                 /\ Goto(t, task[t].kind, "cleanup")
                 /\ UNCHANGED <<session, query, procs, askFiles, history>>

\* the catch block of the retry loop
TextCatch(t) == /\ task[t].kind \in TextKinds
                /\ task[t].pc = "await"
                /\ query[t].pc = "thrown"
                /\ IF includesExitedWithCode(query[t].err) /\ task[t].attempt < MAX_RETRIES
                   THEN /\ session' = kill(session)
                        /\ task' = [task EXCEPT ![t].pc = "call", ![t].attempt = @ + 1, ![t].resubmitted = IF query[t].stopped /\ procs[query[t].pid].killed THEN "stop" ELSE "crash"]
                   ELSE /\ session' = IF includesCancel(query[t].err) THEN consumeInterruptFlag(session) ELSE session
                        /\ task' = [task EXCEPT ![t].pc = "cleanup", ![t].notice = includesCancel(query[t].err) /\ ~session.wasInterruptedByNewMessage]
                /\ UNCHANGED <<query, procs, askFiles, history>>

\* stopProcessing(), and handleText called for the next queued message: msg
\* is the message this handler goes on with (0: its own), submitted the
\* messages it has passed the queue test with
TextCleanup(t) == /\ task[t].kind \in TextKinds
                  /\ task[t].pc = "cleanup"
                  /\ session' = dequeueMessage(stopProcessing(session))
                  /\ task' = IF session.queue = <<>> THEN [task EXCEPT ![t].pc = "done", ![t].msg = 0] ELSE [task EXCEPT ![t].pc = "next", ![t].msg = Head(session.queue), ![t].attempt = 0]
                  /\ UNCHANGED <<query, procs, askFiles, history>>

\* handleText(next.ctx) up to the "Processing..." reply
TextNext(t) == /\ task[t].kind \in TextKinds
               /\ task[t].pc = "next"
               /\ acceptText(t, task[t].kind)

\* handleVoice up to the download of the voice file
handleVoice(t) == /\ Fresh(t)
                  /\ Sequential
                  /\ session' = startProcessing(session)
                  /\ Goto(t, "voice", "transcribe")
                  /\ UNCHANGED <<query, procs, askFiles, history>>

VoiceTranscribed(t, transcript) == /\ task[t].kind = "voice"
                                   /\ task[t].pc = "transcribe"
                                   /\ IF transcript
                                      THEN /\ session' = [session EXCEPT !.conversationTitle = IF isActive(session) THEN @ ELSE "title"]
                                           /\ Goto(t, "voice", "call")
                                      ELSE /\ session' = stopProcessing(session)
                                           /\ Goto(t, "voice", "done")
                                   /\ UNCHANGED <<query, procs, askFiles, history>>

VoiceCall(t) == /\ task[t].kind = "voice"
                /\ task[t].pc = "call"
                /\ CanCall
                /\ Commit(sendMessageStreaming(World, t))
                /\ Goto(t, "voice", "await")

VoiceReturn(t) == /\ task[t].kind = "voice"
                  /\ task[t].pc = "await"
                  /\ query[t].pc = "returned"
                  /\ Goto(t, "voice", "cleanup")
                  /\ UNCHANGED <<session, query, procs, askFiles, history>>

VoiceCatch(t) == /\ task[t].kind = "voice"
                 /\ task[t].pc = "await"
                 /\ query[t].pc = "thrown"
                 /\ session' = IF includesCancel(query[t].err) THEN consumeInterruptFlag(session) ELSE session
                 /\ Goto(t, "voice", "cleanup")
                 /\ UNCHANGED <<query, procs, askFiles, history>>

VoiceCleanup(t) == /\ task[t].kind = "voice"
                   /\ task[t].pc = "cleanup"
                   /\ session' = stopProcessing(session)
                   /\ Goto(t, "voice", "done")
                   /\ UNCHANGED <<query, procs, askFiles, history>>

StopKinds == {"stop", "stop_button"}

\* handleStop (/stop), or the Stop button of handleActionCallback, up to the
\* sleep
handleStop(t, kind) == /\ Fresh(t)
                       /\ kind \in StopKinds
                       /\ IF isRunning(session) /\ stopResult(session) # "false"
                          THEN /\ Commit(IF stopResult(session) = "pending" THEN [stop(World) EXCEPT !.qs = [u \in Tasks |-> [query[u] EXCEPT !.stopPending = TRUE, !.pendingStop = TRUE]]] ELSE stop(World))
                               /\ Goto(t, kind, "sleep")
                          ELSE Goto(t, kind, "done") /\ UNCHANGED <<session, query, procs, askFiles, history>>

\* after sleep(100)
StopWake(t) == /\ task[t].kind \in StopKinds
               /\ task[t].pc = "sleep"
               /\ session' = clearStopRequested(session)
               /\ Goto(t, task[t].kind, "done")
               /\ UNCHANGED <<query, procs, askFiles, history>>

\* handleNew (/new) up to its sleep, or to its reply when nothing is running;
\* spawnsBefore remembers how many subprocesses had been spawned at the reply
handleNew(t) == /\ Fresh(t)
                /\ IF isRunning(session) /\ stopResult(session) # "false"
                   THEN /\ Commit(stop(World))
                        /\ Goto(t, "new", "sleep")
                   ELSE /\ session' = kill(session)
                        /\ task' = [task EXCEPT ![t].kind = "new", ![t].pc = "done", ![t].spawnsBefore = Len(procs)]
                        /\ UNCHANGED <<query, procs, askFiles, history>>

\* handleNew after sleep(100): the stop flag and the session are cleared
NewWake(t) == /\ task[t].kind = "new"
              /\ task[t].pc = "sleep"
              /\ session' = kill(clearStopRequested(session))
              /\ task' = [task EXCEPT ![t].pc = "done", ![t].spawnsBefore = Len(procs)]
              /\ UNCHANGED <<query, procs, askFiles, history>>

\* the directories of the project registry
ProjectDirs == {WORKING_DIR, "d2"}

\* if (session.isActive) await session.kill(); session.setWorkingDir(path)
switchProject(s, dir) == [(IF isActive(s) THEN kill(s) ELSE s) EXCEPT !.workingDir = dir]

\* handleProjectCallback (project:{index}) of an existing directory, up to
\* its sleep after stop(), or to the switch when nothing is running
handleProjectCallback(t, dir) == /\ Fresh(t)
                                 /\ IF isRunning(session)
                                    THEN /\ Commit(stop(World))
                                         /\ task' = [task EXCEPT ![t].kind = "project", ![t].pc = "sleep", ![t].dir = dir]
                                    ELSE /\ session' = switchProject(session, dir)
                                         /\ task' = [task EXCEPT ![t].kind = "project", ![t].pc = "done", ![t].dir = dir]
                                         /\ UNCHANGED <<query, procs, askFiles, history>>

\* handleProjectCallback after sleep(100): the stop flag is cleared, the
\* session killed if it is active, the working directory switched
ProjectWake(t) == /\ task[t].kind = "project"
                  /\ task[t].pc = "sleep"
                  /\ session' = switchProject(clearStopRequested(session), task[t].dir)
                  /\ task' = [task EXCEPT ![t].pc = "done"]
                  /\ UNCHANGED <<query, procs, askFiles, history>>

\* the session fields are assigned before the working directory is compared
resumeSessionAssignFirst(s, file, sessionId) == LET loaded == loadSessionHistory(file)
                                                    i == findIndex(loaded.sessions, sessionId)
                                                    s1 == [s EXCEPT !.sessionId = loaded.sessions[i].session_id, !.conversationTitle = loaded.sessions[i].title, !.lastActivity = "now"]
                                                IN IF ~loaded.hasList THEN [ok |-> FALSE, threw |-> TRUE, s |-> s]
                                                   ELSE IF i = 0 THEN [ok |-> FALSE, threw |-> FALSE, s |-> s]
                                                   ELSE [ok |-> loaded.sessions[i].working_dir = s.workingDir, threw |-> FALSE, s |-> s1]

\* resumeSession(sessionId): what it makes of the session, whether it
\* succeeded, and whether find threw on a loaded value without sessions list
resumeSession(s, file, sessionId) == LET loaded == loadSessionHistory(file)
                                         i == findIndex(loaded.sessions, sessionId)
                                     IN IF ~loaded.hasList THEN [ok |-> FALSE, threw |-> TRUE, s |-> s]
                                        ELSE IF i = 0 \/ loaded.sessions[i].working_dir # s.workingDir
                                        THEN [ok |-> FALSE, threw |-> FALSE, s |-> s]
                                        ELSE [ok |-> TRUE, threw |-> FALSE, s |-> [s EXCEPT !.sessionId = loaded.sessions[i].session_id, !.conversationTitle = loaded.sessions[i].title, !.lastActivity = "now"]]

\* resumeLast(): the first entry of the list, when there is one
resumeLast(s, file) == LET list == getSessionList(s, file)
                       IN IF list.threw THEN [ok |-> FALSE, threw |-> TRUE, s |-> s]
                          ELSE IF list.sessions = <<>> THEN [ok |-> FALSE, threw |-> FALSE, s |-> s]
                          ELSE resumeSession(s, file, list.sessions[1].session_id)

\* handleResumeCallback up to the edit of the picker message
handleResumeCallback(t, sessionId) == /\ Fresh(t)
                                      /\ LET r == resumeSession(session, history, sessionId)
                                         IN IF ~isActive(session) /\ r.ok
                                            THEN session' = r.s /\ Goto(t, "resume", "call")
                                            ELSE Goto(t, "resume", "done") /\ UNCHANGED session
                                      /\ UNCHANGED <<query, procs, askFiles, history>>

\* the recap prompt is sent
ResumeCall(t) == /\ task[t].kind = "resume"
                 /\ task[t].pc = "call"
                 /\ CanCall
                 /\ Commit(sendMessageStreaming(World, t))
                 /\ Goto(t, "resume", "await")

ResumeDone(t) == /\ task[t].kind = "resume"
                 /\ task[t].pc = "await"
                 /\ query[t].pc \in {"returned", "thrown"}
                 /\ Goto(t, "resume", "done")
                 /\ UNCHANGED <<session, query, procs, askFiles, history>>

\* sendGsdCommand up to its first await: the sleep after stop(), or the call
sendGsdCommand(t) == /\ Fresh(t)
                     /\ IF isRunning(session)
                        THEN Commit(stop(World)) /\ Goto(t, "gsd", "sleep")
                        ELSE CanCall /\ Commit(sendMessageStreaming(World, t)) /\ Goto(t, "gsd", "await")

\* after the sleep: clearStopRequested(), then the call
GsdWake(t) == /\ task[t].kind = "gsd"
              /\ task[t].pc = "sleep"
              /\ Len(procs) < MaxSpawns
              /\ Commit(sendMessageStreaming([World EXCEPT !.s = clearStopRequested(@)], t))
              /\ Goto(t, "gsd", "await")

GsdDone(t) == /\ task[t].kind = "gsd"
              /\ task[t].pc = "await"
              /\ query[t].pc \in {"returned", "thrown"}
              /\ session' = IF query[t].pc = "thrown" /\ includesCancel(query[t].err) THEN consumeInterruptFlag(session) ELSE session
              /\ Goto(t, "gsd", "done")
              /\ UNCHANGED <<query, procs, askFiles, history>>

(* ----------------------- ask-user option buttons ----------------------- *)

\* the keyboard of request r has been sent to the chat
Presented(r) == askFiles[r] \in {"sent", "deleted"} \/ \E u \in Tasks : query[u].poll = r

\* the askuser callback up to its first await: the request file is read and
\* the option index checked
handleAskUserCallback(t, r, valid) == /\ Fresh(t)
                                      /\ Presented(r)
                                      /\ IF askFiles[r] \in {"pending", "sent"} /\ valid
                                         THEN task' = [task EXCEPT ![t].kind = "askuser", ![t].pc = "answer", ![t].req = r]
                                         ELSE Goto(t, "askuser", "done")
                                      /\ UNCHANGED <<session, query, procs, askFiles, history>>

\* after answerCallbackQuery: unlinkSync(requestFile), then stop() and the
\* sleep when the session is running, the call otherwise
AskConsume(t) == /\ task[t].kind = "askuser"
                 /\ task[t].pc = "answer"
                 /\ LET w == [World EXCEPT !.files[task[t].req] = IF @ \in {"pending", "sent"} THEN "deleted" ELSE @]
                    IN IF isRunning(session)
                       THEN Commit(stop(w)) /\ Goto(t, "askuser", "sleep")
                       ELSE CanCall /\ Commit(sendMessageStreaming(w, t)) /\ Goto(t, "askuser", "await")

\* after the sleep: the call
AskWake(t) == /\ task[t].kind = "askuser"
              /\ task[t].pc = "sleep"
              /\ CanCall
              /\ Commit(sendMessageStreaming(World, t))
              /\ Goto(t, "askuser", "await")

AskDone(t) == /\ task[t].kind = "askuser"
              /\ task[t].pc = "await"
              /\ query[t].pc \in {"returned", "thrown"}
              /\ session' = IF query[t].pc = "thrown" /\ includesCancel(query[t].err) THEN consumeInterruptFlag(session) ELSE session
              /\ Goto(t, "askuser", "done")
              /\ UNCHANGED <<query, procs, askFiles, history>>

(* ---------------------------- context usage ---------------------------- *)

\* the binary digits of a natural number, most significant first
RECURSIVE toBits(_)
toBits(n) == IF n = 0 THEN <<>> ELSE Append(toBits(n \div 2), n % 2)

RECURSIVE fromBits(_)
fromBits(bits) == IF bits = <<>> THEN 0 ELSE 2 * fromBits(SubSeq(bits, 1, Len(bits) - 1)) + bits[Len(bits)]

\* the first k binary digits of r / w after the point, for r < w, three at
\* a time
RECURSIVE fractionBits(_, _, _)
fractionBits(r, w, k) == IF k = 0 THEN <<>> ELSE <<(8 * r) \div (4 * w), ((8 * r) \div (2 * w)) % 2, ((8 * r) \div w) % 2>> \o fractionBits((8 * r) % w, w, k - 3)

\* what is left of r / w after those k digits
RECURSIVE fractionRest(_, _, _)
fractionRest(r, w, k) == IF k = 0 THEN r ELSE fractionRest((8 * r) % w, w, k - 3)

\* the significand of a double
Precision == 53

\* digits computed past the point in a division: enough for a quotient of
\* two numbers below 2^28
Digits == 90

\* a double above zero is bits * 2^(point - Precision), bits[1] = 1
Zero == [bits |-> <<>>, point |-> 0]

\* the digits incremented by one unit in the last place
increment(bits) == IF \A i \in 1..Len(bits) : bits[i] = 1
                   THEN [bits |-> [i \in 1..Len(bits) |-> IF i = 1 THEN 1 ELSE 0], carry |-> 1]
                   ELSE LET k == CHOOSE i \in 1..Len(bits) : bits[i] = 0 /\ \A j \in (i + 1)..Len(bits) : bits[j] = 1
                        IN [bits |-> [i \in 1..Len(bits) |-> IF i < k THEN bits[i] ELSE IF i = k THEN 1 ELSE 0], carry |-> 0]

\* IEEE 754 round to nearest, ties to even: stream holds the exact digits,
\* point of them before the binary point, sticky tells that digits other
\* than 0 follow the stream
roundToNearest(stream, point, sticky) == LET zeros == IF \E i \in 1..Len(stream) : stream[i] = 1 THEN (CHOOSE i \in 1..Len(stream) : stream[i] = 1 /\ \A j \in 1..(i - 1) : stream[j] = 0) - 1 ELSE Len(stream)
                                             s == SubSeq(stream, zeros + 1, Len(stream))
                                             m == SubSeq(s, 1, Precision)
                                             rest == sticky \/ \E i \in (Precision + 2)..Len(s) : s[i] = 1
                                             up == s[Precision + 1] = 1 /\ (rest \/ m[Precision] = 1)
                                             next == increment(m)
                                         IN IF zeros = Len(stream) THEN Zero
                                            ELSE IF up THEN [bits |-> next.bits, point |-> point - zeros + next.carry]
                                            ELSE [bits |-> m, point |-> point - zeros]

\* a / b in double arithmetic, for integers 0 <= a, 0 < b
divide(a, b) == LET int == toBits(a \div b)
                IN roundToNearest(int \o fractionBits(a % b, b, Digits), Len(int), fractionRest(a % b, b, Digits) # 0)

\* the digits in the opposite order
reversed(bits) == [i \in 1..Len(bits) |-> bits[Len(bits) + 1 - i]]

\* the digits, least significant first, of a number times c plus carry
RECURSIVE timesDigits(_, _, _)
timesDigits(lsb, c, carry) == IF lsb = <<>> THEN reversed(toBits(carry)) ELSE <<(Head(lsb) * c + carry) % 2>> \o timesDigits(Tail(lsb), c, (Head(lsb) * c + carry) \div 2)

\* x * c in double arithmetic, for a small integer c > 0
times(x, c) == IF x = Zero THEN Zero
               ELSE LET product == reversed(timesDigits(reversed(x.bits), c, 0))
                    IN roundToNearest(product \o <<0>>, x.point + Len(product) - Len(x.bits), FALSE)

\* Math.round(x) for x >= 0: the nearest integer, a half goes up
MathRound(x) == IF x = Zero \/ x.point < 0 THEN 0
                ELSE fromBits(SubSeq(x.bits, 1, x.point)) + x.bits[x.point + 1]

\* value || fallback, for a number or undefined (<<>>)
orElse(value, fallback) == IF value = <<>> \/ value[1] = 0 THEN fallback ELSE value[1]

\* totalTokens of a per-model usage
totalTokens(m) == orElse(m.inputTokens, 0) + orElse(m.outputTokens, 0) + orElse(m.cacheReadInputTokens, 0) + orElse(m.cacheCreationInputTokens, 0)

\* the percentage is taken of the last reported model
contextPercentOfLast(models) == MathRound(times(divide(totalTokens(models[Len(models)]), orElse(models[Len(models)].contextWindow, 200000)), 100))

\* Math.round((totalTokens / contextWindow) * 100) of models[0]
contextPercent(models) == MathRound(times(divide(totalTokens(models[1]), orElse(models[1].contextWindow, 200000)), 100))

\* the result event: if (event.modelUsage) { ... }
resultUsage(s, modelUsage) == IF modelUsage.present /\ Len(modelUsage.models) > 0 THEN [s EXCEPT !.contextPercent = contextPercent(modelUsage.models)] ELSE s

(* ------------------------------ the store ------------------------------ *)

\* In the store specifications task is the record of the store calls: the
\* last operation, its argument, its outcome, the session before it, and
\* the ids saved so far, oldest first.
StoreSids == <<"s1", "s2", "s3", "s4", "s5", "s6", "s7">>

Dirs == {WORKING_DIR, "d2"}

NoCall == [op |-> "none", sid |-> NULL, ok |-> FALSE, threw |-> FALSE, before |-> NewSession, saved |-> <<>>]

Called(op, sid, ok, threw) == [op |-> op, sid |-> sid, ok |-> ok, threw |-> threw, before |-> session, saved |-> task.saved]

\* a stream event that carries session id sid is read
Capture(sid, maxSaves) == /\ Len(task.saved) < maxSaves
                          /\ LET w == captureSessionId(World, sid)
                             IN /\ session' = w.s
                                /\ history' = w.hist
                                /\ task' = [Called("capture", sid, TRUE, FALSE) EXCEPT !.saved = IF session.sessionId = NULL THEN Append(@, [id |-> sid, title |-> session.conversationTitle]) ELSE @]
                          /\ UNCHANGED <<query, procs, askFiles>>

\* /new
Kill == /\ session' = kill(session)
        /\ task' = Called("kill", NULL, TRUE, FALSE)
        /\ UNCHANGED <<query, procs, askFiles, history>>

\* the title a text message gives a session that is not active
SetTitle == /\ ~isActive(session)
            /\ session' = [session EXCEPT !.conversationTitle = "title"]
            /\ task' = Called("title", NULL, TRUE, FALSE)
            /\ UNCHANGED <<query, procs, askFiles, history>>

\* setWorkingDir(path) of an existing directory
setWorkingDir(dir) == /\ session' = [session EXCEPT !.workingDir = dir]
                      /\ task' = Called("chdir", NULL, TRUE, FALSE)
                      /\ UNCHANGED <<query, procs, askFiles, history>>

\* getSessionList() is called
List == /\ LET r == getSessionList(session, history)
           IN task' = Called("list", NULL, ~r.threw, r.threw)
        /\ UNCHANGED <<session, query, procs, askFiles, history>>

\* resumeSession(sid) is called
Resume(sid) == /\ LET r == resumeSession(session, history, sid)
                  IN /\ session' = r.s
                     /\ task' = Called("resume", sid, r.ok, r.threw)
               /\ UNCHANGED <<query, procs, askFiles, history>>

\* resumeLast() is called
ResumeLast == /\ LET r == resumeLast(session, history)
                 IN /\ session' = r.s
                    /\ task' = Called("resumeLast", NULL, r.ok, r.threw)
              /\ UNCHANGED <<query, procs, askFiles, history>>

(* --------------------------- specifications ---------------------------- *)

\* a session saved by an earlier run of the bot
SavedSession == [session_id |-> "s1", saved_at |-> 0, working_dir |-> WORKING_DIR, title |-> "title"]

Init == /\ session = NewSession
        /\ query = [t \in Tasks |-> NoQuery]
        /\ procs = <<>>
        /\ askFiles = [r \in ReqIds |-> "absent"]
        /\ history = ValidFile(<<SavedSession>>, 0)
        /\ task = [t \in Tasks |-> NewTask]

Engine(events, maxLines) == \E t \in Tasks : \/ \E event \in events, elapsed \in BOOLEAN : query[t].lines < maxLines /\ ReadLine(t, event, elapsed)
                                   \/ StreamEnd(t)
                                   \/ AfterClose(t)
                                   \/ ReturnQuery(t)

Subprocess(codes) == \/ \E p \in 1..MaxSpawns : \E code \in codes : ProcExit(p, code)
                     \/ \E p \in 1..MaxSpawns : ProcClose(p)

Next == \/ Engine(CoarseEvents, MaxCoarseLines)
        \/ Subprocess({NULL, "0", "1"})
        \/ \E t \in Tasks : \/ \E kind \in {"text", "retry"} : handleText(t, kind)
                            \/ TextCall(t)
                            \/ TextReturn(t)
                            \/ TextCatch(t)
                            \/ TextCleanup(t)
                            \/ TextNext(t)
                            \/ handleVoice(t)
                            \/ \E transcript \in BOOLEAN : VoiceTranscribed(t, transcript)
                            \/ VoiceCall(t)
                            \/ VoiceReturn(t)
                            \/ VoiceCatch(t)
                            \/ VoiceCleanup(t)
                            \/ \E kind \in StopKinds : handleStop(t, kind)
                            \/ StopWake(t)
                            \/ \E sid \in Sids : handleResumeCallback(t, sid)
                            \/ ResumeCall(t)
                            \/ ResumeDone(t)
                            \/ sendGsdCommand(t)
                            \/ GsdWake(t)
                            \/ GsdDone(t)

Spec == Init /\ [][Next]_vars

\* one query under every kind of line and of result, with the stderr of the
\* subprocess, its exit codes, an ask-user request and one /stop
InitQuery == /\ session = NewSession
             /\ query = [t \in Tasks |-> NoQuery]
             /\ procs = <<>>
             /\ askFiles = [r \in ReqIds |-> "absent"]
             /\ history = [kind |-> "missing", sessions |-> <<>>, clock |-> 0]
             /\ task = [t \in Tasks |-> NewTask]

NextQuery == \/ Engine(QueryEvents, MaxLines)
             \/ Subprocess({NULL, "0", "1"})
             \/ \E t \in Tasks, text \in StderrTexts : StderrData(t, text)
             \/ \E r \in ReqIds : McpAskUser(r)
             \/ \E t \in Tasks : PollMark(t)
             \/ \E t \in Tasks : \/ t = 1 /\ sendGsdCommand(t)
                                 \/ GsdDone(t)
                                 \/ t = 2 /\ handleStop(t, "stop")
                                 \/ StopWake(t)

SpecQuery == InitQuery /\ [][NextQuery]_vars

\* one query that asks the user, and one press of an option button
AskEvents == {AssistantEvent("m1", <<[type |-> "tool_use", len |-> 0, id |-> 2, ask |-> TRUE], ShortText>>), ResultEvent("ok", FALSE, "")}

NextAsk == \/ Engine(AskEvents, MaxLines)
           \/ Subprocess({NULL, "0", "1"})
           \/ \E r \in ReqIds : McpAskUser(r)
           \/ \E t \in Tasks : PollMark(t)
           \/ \E t \in Tasks : \/ t = 1 /\ sendGsdCommand(t)
                               \/ GsdDone(t)
                               \/ t = 2 /\ \E r \in ReqIds, valid \in BOOLEAN : handleAskUserCallback(t, r, valid)
                               \/ AskConsume(t)
                               \/ AskWake(t)
                               \/ AskDone(t)

SpecAsk == InitQuery /\ [][NextAsk]_vars

\* two queries that read one line each and ask the user, each started by a
\* GSD button
NextPolls == \/ Engine(AskEvents, MaxCoarseLines)
             \/ Subprocess({NULL, "0", "1"})
             \/ \E r \in ReqIds : McpAskUser(r)
             \/ \E t \in Tasks : PollMark(t)
             \/ \E t \in Tasks : \/ sendGsdCommand(t)
                                 \/ GsdWake(t)
                                 \/ GsdDone(t)

SpecPolls == InitQuery /\ [][NextPolls]_vars

\* one query that asks the user, the directory holding any request files of
\* this chat and of another when it starts
InitFiles == /\ session = NewSession
             /\ query = [t \in Tasks |-> NoQuery]
             /\ procs = <<>>
             /\ askFiles \in [{Requests[i] : i \in 1..Len(Requests)} -> {"absent", "pending", "sent"}]
             /\ history = [kind |-> "missing", sessions |-> <<>>, clock |-> 0]
             /\ task = [t \in Tasks |-> NewTask]

NextFiles == \/ Engine(AskEvents, MaxCoarseLines)
             \/ Subprocess({"0"})
             \/ \E r \in DOMAIN askFiles : McpAskUser(r)
             \/ \E t \in Tasks : PollMark(t)
             \/ \E t \in Tasks : \/ t = 1 /\ sendGsdCommand(t)
                                 \/ GsdDone(t)

SpecFiles == InitFiles /\ [][NextFiles]_vars

\* one query that asks the user, the temp directory readable or not
InitDir == /\ session = NewSession
           /\ query = [t \in Tasks |-> NoQuery]
           /\ procs = <<>>
           /\ askFiles \in {[r \in ReqIds \cup {TmpDir} |-> IF r = TmpDir THEN d ELSE f] : d \in {"ok", "unreadable"}, f \in {"absent", "pending", "sent"}}
           /\ history = [kind |-> "missing", sessions |-> <<>>, clock |-> 0]
           /\ task = [t \in Tasks |-> NewTask]

SpecDir == InitDir /\ [][NextFiles]_vars

\* a plain message, and a /stop or a message with the "!" prefix
NextInterrupt == \/ Engine(CoarseEvents, MaxCoarseLines)
                 \/ Subprocess({NULL, "0", "1"})
                 \/ \E t \in Tasks : \/ handleText(t, "text")
                                     \/ TextCall(t)
                                     \/ TextReturn(t)
                                     \/ TextCatch(t)
                                     \/ TextCleanup(t)
                                     \/ TextNext(t)
                                     \/ checkInterrupt(t)
                                     \/ InterruptWake(t)
                                     \/ InterruptText(t)
                                     \/ handleStop(t, "stop")
                                     \/ StopWake(t)

SpecInterrupt == InitQuery /\ [][NextInterrupt]_vars

\* the handler of a text message has finished and the next update of the
\* chat is dispatched: its handler starts afresh, with a query of its own
NextUpdate(t) == /\ task[t].kind \in TextKinds
                 /\ task[t].pc = "done"
                 /\ task' = [task EXCEPT ![t] = NewTask]
                 /\ query' = [query EXCEPT ![t] = NoQuery]
                 /\ UNCHANGED <<session, procs, askFiles, history>>

\* plain messages and /new
NextNew == \/ Engine(CoarseEvents, MaxCoarseLines)
           \/ Subprocess({NULL, "0", "1"})
           \/ \E t \in Tasks : \/ handleText(t, "text")
                               \/ TextCall(t)
                               \/ TextReturn(t)
                               \/ TextCatch(t)
                               \/ TextCleanup(t)
                               \/ handleNew(t)
                               \/ NewWake(t)
                               \/ NextUpdate(t)

SpecNew == Init /\ [][NextNew]_vars

\* the query of a GSD button and a switch of project
NextProject == \/ Engine(CoarseEvents, MaxCoarseLines)
               \/ Subprocess({NULL, "0", "1"})
               \/ \E t \in Tasks : \/ t = 1 /\ sendGsdCommand(t)
                                   \/ GsdDone(t)
                                   \/ \E dir \in ProjectDirs : handleProjectCallback(t, dir)
                                   \/ ProjectWake(t)

SpecProject == InitQuery /\ [][NextProject]_vars

\* plain messages while the query of a GSD button runs
NextQueue == \/ Engine(CoarseEvents, MaxCoarseLines)
             \/ Subprocess({NULL, "0", "1"})
             \/ \E t \in Tasks : \/ handleText(t, "text")
                                 \/ TextCall(t)
                                 \/ TextReturn(t)
                                 \/ TextCatch(t)
                                 \/ TextCleanup(t)
                                 \/ sendGsdCommand(t)
                                 \/ GsdWake(t)
                                 \/ GsdDone(t)

SpecQueue == InitQuery /\ [][NextQueue]_vars

\* the decode loop of one query under every assistant event, the subprocess
\* ending normally
NextDecode == \/ Engine(FineEvents, MaxLines)
              \/ Subprocess({"0"})
              \/ \E t \in Tasks : \/ t = 1 /\ sendGsdCommand(t)
                                  \/ GsdDone(t)

SpecDecode == InitQuery /\ [][NextDecode]_vars

\* the history file under saves of up to MaxSaves + 1 session ids, a /new
\* between two saves; ids are taken in the order of StoreSids
DistinctSaved == Cardinality({task.saved[i].id : i \in 1..Len(task.saved)})

InitStore == /\ session = NewSession
             /\ query = [t \in Tasks |-> NoQuery]
             /\ procs = <<>>
             /\ askFiles = [r \in ReqIds |-> "absent"]
             /\ history = [kind |-> "missing", sessions |-> <<>>, clock |-> 0]
             /\ task = NoCall

NextStore == \/ \E i \in 1..Min(DistinctSaved + 1, Len(StoreSids)) : Capture(StoreSids[i], MaxSaves)
             \/ Kill

SpecStore == InitStore /\ [][NextStore]_vars

\* the store operations on every kind of history file
FileKinds == {"missing", "empty", "invalid", "no_sessions"}

InitSessions == /\ session = NewSession
                /\ query = [t \in Tasks |-> NoQuery]
                /\ procs = <<>>
                /\ askFiles = [r \in ReqIds |-> "absent"]
                /\ history \in {[kind |-> k, sessions |-> <<>>, clock |-> 0] : k \in FileKinds}
                /\ task = NoCall

NextSessions == \/ \E sid \in Sids : Capture(sid, MaxSessionSaves)
                \/ Kill
                \/ SetTitle
                \/ \E dir \in Dirs : setWorkingDir(dir)
                \/ List
                \/ \E sid \in Sids : Resume(sid)
                \/ ResumeLast

SpecSessions == InitSessions /\ [][NextSessions]_vars

\* the token counts and the windows a result event reports
TokenCounts == {<<>>, <<0>>, <<10000>>, <<29000>>, <<50000>>, <<250000>>}

Windows == {<<>>, <<0>>, <<200000>>, <<1000000>>}

ModelUsages == [inputTokens : TokenCounts, outputTokens : TokenCounts, cacheReadInputTokens : {<<>>, <<1000>>}, cacheCreationInputTokens : {<<>>, <<0>>}, contextWindow : Windows]

OtherModel == [inputTokens |-> <<1>>, outputTokens |-> <<1>>, cacheReadInputTokens |-> <<>>, cacheCreationInputTokens |-> <<>>, contextWindow |-> <<200>>]

NoUsage == [present |-> FALSE, models |-> <<>>]

\* event.modelUsage: missing, empty, or one or two models
UsageInputs == {NoUsage, [NoUsage EXCEPT !.present = TRUE]} \cup {[present |-> TRUE, models |-> <<m>>] : m \in ModelUsages} \cup {[present |-> TRUE, models |-> <<m, OtherModel>>] : m \in ModelUsages}

\* one result event with any usage report
InitUsage == /\ session = NewSession
             /\ query = [t \in Tasks |-> NoQuery]
             /\ procs = <<>>
             /\ askFiles = [r \in ReqIds |-> "absent"]
             /\ history = [kind |-> "missing", sessions |-> <<>>, clock |-> 0]
             /\ task \in [pc : {"new"}, modelUsage : UsageInputs]

ResultUsage == /\ task.pc = "new"
               /\ session' = resultUsage(session, task.modelUsage)
               /\ task' = [task EXCEPT !.pc = "done"]
               /\ UNCHANGED <<query, procs, askFiles, history>>

NextUsage == ResultUsage

SpecUsage == InitUsage /\ [][NextUsage]_vars

(* --------------------------- text updates ------------------------------ *)
STREAMING_THROTTLE_MS == 500

\* the clock advances by half the throttle interval, MaxTicks times
TickMs == STREAMING_THROTTLE_MS \div 2

StartTime == 2 * STREAMING_THROTTLE_MS

\* what formatWithinLimit makes of a content: the conversion to HTML is not
\* part of the model, any two contents may or may not be formatted alike
Formats == {"html1", "html2"}

\* how the Telegram calls of one update end: the HTML call or the plain one
\* after it succeeds, or none does (an edit that is too long is not retried)
Outcomes == {"ok", "fail"}

\* createStatusCallback, "text", known segment: the content test is left out
editAlways(state, formatted, segmentId, now, outcome) == [state EXCEPT !.lastContent[segmentId] = IF outcome = "ok" THEN formatted ELSE @, !.lastEditTimes[segmentId] = now]

\* createStatusCallback, "text", known segment whose throttle is open: the
\* message is edited unless the content is the one last delivered
edit(state, formatted, segmentId, now, outcome) == IF formatted = state.lastContent[segmentId] THEN state
                                                   ELSE [state EXCEPT !.lastContent[segmentId] = IF outcome = "ok" THEN formatted ELSE @, !.lastEditTimes[segmentId] = now]

\* createStatusCallback, "text": a message is created for a new segment; a
\* reply that fails twice throws into the catch of the callback
statusCallbackText(state, formatted, segmentId, now, outcome) ==
    IF segmentId \notin state.textMessages
    THEN IF outcome = "ok" THEN [state EXCEPT !.textMessages = @ \cup {segmentId}, !.lastContent[segmentId] = formatted, !.lastEditTimes[segmentId] = now] ELSE state
    ELSE IF now - state.lastEditTimes[segmentId] > STREAMING_THROTTLE_MS THEN edit(state, formatted, segmentId, now, outcome) ELSE state

\* what the update delivered to the chat: a new message, an edit, or nothing
delivery(state, after, outcome) == IF after.textMessages # state.textMessages THEN "reply" ELSE IF after.lastEditTimes # state.lastEditTimes /\ outcome = "ok" THEN "edit" ELSE "none"

\* state of the sink of one query, the clock, the time of the last text
\* update of the query, and the text updates so far
NoSink == [textMessages |-> {}, lastContent |-> [s \in 0..MaxLines |-> NULL], lastEditTimes |-> [s \in 0..MaxLines |-> 0], now |-> StartTime, lastTextUpdate |-> 0, calls |-> <<>>]

\* the lines of SpecThrottle: texts of one block, and a tool_use
ThrottleEvents == {AssistantEvent(m, <<b>>) : m \in MsgIds, b \in TextBlocks \cup {[type |-> "tool_use", len |-> 0, id |-> 1, ask |-> FALSE]}}

InitThrottle == LET w == sendMessageStreaming([s |-> NewSession, qs |-> [t \in Tasks |-> NoQuery], procs |-> <<>>, files |-> [r \in ReqIds |-> "absent"], hist |-> [kind |-> "missing", sessions |-> <<>>, clock |-> 0]], 1)
                IN /\ session = w.s
                   /\ query = w.qs
                   /\ procs = w.procs
                   /\ askFiles = w.files
                   /\ history = w.hist
                   /\ task = NoSink

Tick == /\ task.now < StartTime + MaxTicks * TickMs
        /\ task' = [task EXCEPT !.now = @ + TickMs]
        /\ UNCHANGED <<session, query, procs, askFiles, history>>

\* one line is read at the time of the clock; the text update it makes, if
\* any, is passed to the sink
ThrottledLine(event, formatted, outcome) ==
    /\ query[1].pc = "reading"
    /\ query[1].lines < MaxLines
    /\ LET emitted(w) == SubSeq(w.qs[1].emits, Len(query[1].emits) + 1, Len(w.qs[1].emits))
           updated(text, after) == [after EXCEPT !.lastTextUpdate = task.now, !.calls = Append(@, [seg |-> text.seg, content |-> text.content, at |-> task.now, formatted |-> formatted, outcome |-> outcome, delivered |-> delivery(task, after, outcome)])]
           sink(texts) == IF texts = <<>> THEN task ELSE updated(texts[1], statusCallbackText(task, formatted, texts[1].seg, task.now, outcome))
           passed(w) == /\ Commit(w)
                        /\ task' = sink(SelectSeq(emitted(w), LAMBDA e : e.kind = "text"))
       IN passed(lineRead(1, event, task.now - task.lastTextUpdate > STREAMING_THROTTLE_MS))

NextThrottle == \/ Tick
                \/ \E event \in ThrottleEvents, formatted \in Formats, outcome \in Outcomes : ThrottledLine(event, formatted, outcome)

SpecThrottle == InitThrottle /\ [][NextThrottle]_vars

(* ------------------------------ properties ----------------------------- *)

Ended(q) == q.pc \in {"returned", "thrown"}

HasSegment(e) == e.seg >= 0

\* the emissions that carry a segment id, in order
SegmentEmits(q) == SelectSeq(q.emits, HasSegment)

ToolStatusCount(q, id) == Cardinality({i \in 1..Len(q.emits) : q.emits[i].kind = "tool" /\ q.emits[i].content = <<id>>})

BoundaryCount(q, id) == Cardinality({i \in 1..Len(q.boundaries) : q.boundaries[i] = id})

ThinkingCount(q) == Cardinality({i \in 1..Len(q.emits) : q.emits[i].kind = "thinking"})

SegmentEndCount(q, k) == Cardinality({i \in 1..Len(q.emits) : q.emits[i].kind = "segment_end" /\ q.emits[i].seg = k})

AskUserToolIds == {b.id : b \in {x \in ToolBlocks : x.ask}}

DoneCount(q) == Cardinality({i \in 1..Len(q.emits) : q.emits[i].kind = "done"})

\* C11: a query that returns (success, suspension or context-limit reset) has
\* emitted done exactly once, as its last emission.
DoneOnceAndLast == \A t \in Tasks : query[t].pc \in {"returning", "returned"} => /\ DoneCount(query[t]) = 1
                                                                                /\ query[t].emits[Len(query[t].emits)].kind = "done"

\* a query suspended on an ask-user request has returned after other emissions
SuspendedQueryDone == \E t \in Tasks : query[t].pc = "returned" /\ query[t].ret = "waiting" /\ Len(query[t].emits) > 1

\* C1: at any time at most one sendMessageStreaming call is between the spawn
\* of its subprocess and its return or throw, whatever handlers interleave.
AtMostOneQueryInFlight == Cardinality({t \in Tasks : InFlight(t)}) <= 1

\* C2: the sendMessageStreaming call that follows a stop requested in the
\* processing phase spawns no subprocess and throws "Query cancelled".
StopBeforeStartCancels == \A t \in Tasks : query[t].calledAfterStop => query[t].pc = "thrown" /\ query[t].err.kind = "Query cancelled" /\ query[t].pid = NoProc

\* C3: a query whose subprocess was killed by an explicit stop does not throw
\* and records no error, whatever the exit code and whenever the stop flag is
\* cleared.
StoppedQueryNeverFails == \A t \in Tasks : (query[t].stopped /\ procs[query[t].pid].killed) => query[t].pc # "thrown" /\ query[t].err = NoError

\* C4: after a stop request in the running state the decode loop of that
\* query decodes no further event.
NoEventAfterStop == \A t \in Tasks : ~query[t].readAfterStop

\* C5: a query that read a result event whose text matches a context-limit
\* pattern, marked as an error or not, ends with the context-limit outcome
\* and the session id cleared, not with a throw.
ContextLimitResultResets == \A t \in Tasks : (Ended(query[t]) /\ query[t].resultText = TooLong) => query[t].pc = "returned" /\ query[t].ret = "context_limit" /\ session.sessionId = NULL

\* C6: a query during which a stderr chunk matched a prompt-too-long pattern
\* ends with the context-limit outcome and the session reset, whatever the
\* exit code of the subprocess.
ContextLimitStderrResets == \A t \in Tasks : (Ended(query[t]) /\ \E i \in 1..Len(query[t].stderrChunks) : isPromptTooLong(query[t].stderrChunks[i])) => query[t].pc = "returned" /\ query[t].ret = "context_limit" /\ session.sessionId = NULL

\* C7: the segment ids of the emissions of a query start at 0 and never skip
\* or go back: the id moves on by one exactly after a segment_end, so the
\* segment_end of k comes before every text emission of k + 1.
SegmentIdsInOrder == \A t \in Tasks : LET es == SegmentEmits(query[t])
                                      IN /\ es # <<>> => es[1].seg = 0
                                         /\ \A i \in 1..(Len(es) - 1) : es[i + 1].seg = es[i].seg + (IF es[i].kind = "segment_end" THEN 1 ELSE 0)

\* a completed query with three segments, the last one streamed
ThreeSegmentsCompleted == \E t \in Tasks : /\ query[t].pc = "returned"
                                           /\ query[t].ret = "response"
                                           /\ \E i, j, k \in 1..Len(query[t].emits) : /\ i < j /\ j < k
                                                                                      /\ query[t].emits[i].kind = "segment_end" /\ query[t].emits[i].seg = 1
                                                                                      /\ query[t].emits[j].kind = "text" /\ query[t].emits[j].seg = 2
                                                                                      /\ query[t].emits[k].kind = "segment_end" /\ query[t].emits[k].seg = 2

ReplayAddsNothing == [][\A t \in Tasks : (query'[t].lines = query[t].lines + 1 /\ query'[t].replayed) => /\ query'[t].responseParts = query[t].responseParts
                                                                                                         /\ query'[t].currentSegmentText \in {query[t].currentSegmentText, <<>>}
                                                                                                         /\ ThinkingCount(query'[t]) = ThinkingCount(query[t])]_vars

\* a text block above the minimum length has been replayed, after a thinking
\* block
TextReplayed == \E t \in Tasks : /\ query[t].replayed
                                 /\ query[t].lastEvent.content[1].type = "text"
                                 /\ Len(query[t].currentSegmentText) > MIN_TEXT_LENGTH
                                 /\ ThinkingCount(query[t]) > 0

\* C10: when a query has returned, every segment that accumulated text has
\* exactly one segment_end, and the one of the last segment carries its
\* complete text.
EverySegmentEnded == \A t \in Tasks : query[t].pc = "returned" => /\ \A k \in 0..(query[t].currentSegmentId - 1) : SegmentEndCount(query[t], k) = 1
                                                                 /\ \/ query[t].currentSegmentText = <<>>
                                                                    \/ /\ SegmentEndCount(query[t], query[t].currentSegmentId) = 1
                                                                       /\ \E i \in 1..Len(query[t].emits) : query[t].emits[i] = [kind |-> "segment_end", content |-> query[t].currentSegmentText, seg |-> query[t].currentSegmentId]

(* ------------------------- the session store --------------------------- *)

Ids(sessions) == [i \in 1..Len(sessions) |-> sessions[i].session_id]

Reverse(seq) == [i \in 1..Len(seq) |-> seq[Len(seq) + 1 - i]]

\* the ids of the last MAX_SESSIONS saves, the newest first
LastSaved == LET n == Len(task.saved)
                 ids == [i \in 1..n |-> task.saved[i].id]
             IN Reverse(SubSeq(ids, n - Min(n, MAX_SESSIONS) + 1, n))

\* C12: the history never holds more than MAX_SESSIONS entries; when the ids
\* saved so far are all different it holds exactly the last MAX_SESSIONS of
\* them, so the sixth save evicts the oldest.
HistoryBounded == /\ Len(history.sessions) <= MAX_SESSIONS
                  /\ DistinctSaved = Len(task.saved) => Ids(history.sessions) = LastSaved

\* a save of a new id into a full history has evicted the oldest entry
OldestEvicted == /\ Len(task.saved) = MAX_SESSIONS + 1
                 /\ DistinctSaved = MAX_SESSIONS + 1
                 /\ Len(history.sessions) = MAX_SESSIONS
                 /\ \A i \in 1..Len(history.sessions) : history.sessions[i].session_id # task.saved[1].id

TitleOf(s) == IF s.conversationTitle = NULL THEN "Untitled session" ELSE s.conversationTitle

\* C13: no two history entries share a session id; after a save the one entry
\* of the saved id carries the title of that save.
NoDuplicateIds == /\ \A i, j \in 1..Len(history.sessions) : history.sessions[i].session_id = history.sessions[j].session_id => i = j
                  /\ task.op = "capture" /\ task.before.sessionId = NULL /\ history.kind = "valid"
                        => \E i \in 1..Len(history.sessions) : /\ history.sessions[i].session_id = session.sessionId
                                                               /\ history.sessions[i].title = TitleOf(session)

\* the same id has just been saved a second time, under another title
SavedTwiceRetitled == /\ task.op = "capture" /\ task.before.sessionId = NULL /\ history.kind = "valid"
                      /\ \E i \in 1..(Len(task.saved) - 1) : /\ task.saved[i].id = task.saved[Len(task.saved)].id
                                                              /\ task.saved[i].title # task.saved[Len(task.saved)].title

StoreNeverThrows == /\ ~task.threw
                    /\ task.op = "capture" /\ task.before.sessionId = NULL => history.kind = "valid" /\ history.sessions # <<>>

\* the history holds an entry of this id saved in the current directory
KnownHere(sid) == \E i \in 1..Len(history.sessions) : history.sessions[i].session_id = sid /\ history.sessions[i].working_dir = session.workingDir

\* C16: resumeSession of an id the history does not hold, or holds for another
\* working directory, does not succeed, and a resumeSession that does not
\* succeed leaves sessionId, conversationTitle and lastActivity as they were.
FailedResumeChangesNothing == task.op = "resume" => /\ ~KnownHere(task.sid) => ~task.ok
                                                    /\ ~task.ok => /\ session.sessionId = task.before.sessionId
                                                                    /\ session.conversationTitle = task.before.conversationTitle
                                                                    /\ session.lastActivity = task.before.lastActivity

\* an active session was asked to resume an entry of another directory
ResumeRefusedOtherDir == /\ task.op = "resume" /\ ~task.ok /\ ~task.threw
                         /\ task.before.sessionId \notin {NULL, task.sid}
                         /\ \E i \in 1..Len(history.sessions) : history.sessions[i].session_id = task.sid /\ history.sessions[i].working_dir # session.workingDir

\* C17: a session id is taken from a stream event only when the session has
\* none, and that writes the history once; a session that has an id keeps it
\* until kill() clears it; the history is written at no other moment.
SessionIdKept == [][/\ session.sessionId # NULL => session'.sessionId \in {session.sessionId, NULL}
                    /\ session.sessionId # NULL /\ session'.sessionId = NULL => session' = kill(session)
                    /\ session.sessionId = NULL /\ session'.sessionId # NULL => \/ history'.clock = history.clock + 1
                                                                                 \/ \E t \in Tasks : task[t].pc = "new" /\ task'[t].kind = "resume"
                    /\ history' # history => /\ session.sessionId = NULL /\ session'.sessionId # NULL
                                              /\ history'.clock = history.clock + 1
                                              /\ \E i \in 1..Len(history'.sessions) : history'.sessions[i].session_id = session'.sessionId /\ history'.sessions[i].saved_at = history'.clock]_vars

\* a resumed session has read a stream event that carries another id
LaterIdIgnored == /\ session.sessionId = "s1"
                  /\ \E t \in Tasks : query[t].lastEvent = MetaEvent("s2")

\* the subprocesses spawned for the message of handler t
SpawnsOf(t) == Cardinality({p \in 1..Len(procs) : procs[p].owner = t})

\* C18: the text handler resubmits a message once at most, so a message has
\* two subprocesses at most, and never resubmits the message of a query the
\* user stopped.
CrashRetriedOnce == \A t \in Tasks : task[t].kind \in {"text", "retry"} => /\ task[t].attempt <= MAX_RETRIES
                                                                          /\ SpawnsOf(t) <= MAX_RETRIES + 1
                                                                          /\ task[t].resubmitted # "stop"

\* C19: the option of a pressed button is delivered: once the askuser
\* callback has consumed the request and made its call, a subprocess has been
\* spawned for it, whatever the session was doing when the button was pressed.
OptionDelivered == \A t \in Tasks : task[t].kind = "askuser" /\ task[t].pc \in {"await", "done"} /\ task[t].req # NULL => SpawnsOf(t) = 1

\* C20: a request file only goes from pending to sent, by a poll, and from
\* sent to deleted, by the askuser callback of a valid option; it makes no
\* other move once it is written.
AskFileLifecycle == [][\A r \in ReqIds : askFiles'[r] # askFiles[r] =>
                          \/ askFiles[r] = "absent" /\ askFiles'[r] = "pending"
                          \/ askFiles[r] = "pending" /\ askFiles'[r] = "sent" /\ \E t \in Tasks : query[t].pc = "presenting" /\ query[t].poll = r
                          \/ askFiles[r] = "sent" /\ askFiles'[r] = "deleted" /\ \E t \in Tasks : task[t].kind = "askuser" /\ task[t].pc = "answer" /\ task[t].req = r]_vars

(* ---------------------------- the ask bridge --------------------------- *)

\* the keyboards sent for request r by the queries of handlers 1..t
RECURSIVE PresentationsUpTo(_, _)
PresentationsUpTo(r, t) == IF t = 0 THEN 0 ELSE Cardinality({i \in 1..Len(query[t].presented) : query[t].presented[i] = r}) + PresentationsUpTo(r, t - 1)

Presentations(r) == PresentationsUpTo(r, MaxTasks)

\* C21: over all polls (the attempts of one tool_use, the polls of later
\* queries) the keyboard of an ask request is sent at most once.
PresentedOnce == \A r \in ReqIds : Presentations(r) <= 1

\* the record of request r names the polling chat, as a number or as a string
OfThisChat(r) == RequestData(r).chat_id.digits = chatId.digits

\* the keyboards sent by the query of handler t in this step
NewlyPresented(t) == {query[t].presented'[i] : i \in (Len(query[t].presented) + 1)..Len(query[t].presented')}

\* C22: a poll sends the keyboard of a record, and reports success, only for
\* records of the polling chat whose status is pending; it marks only such
\* records sent, and leaves the records of other chats and the records
\* already sent as they are.
PollOnlyOwnPending == [][/\ \A t \in Tasks : \A r \in NewlyPresented(t) : OfThisChat(r) /\ askFiles'[r] = "pending"
                         /\ \A t \in Tasks : query[t].askUserTriggered' /\ ~query[t].askUserTriggered => query[t].presented # <<>>
                         /\ \A r \in DOMAIN askFiles : /\ askFiles'[r] = "sent" /\ askFiles[r] # "sent" => askFiles[r] = "pending" /\ OfThisChat(r) /\ \E t \in Tasks : query[t].poll = r
                                                       /\ askFiles[r] = "sent" => askFiles'[r] = "sent"
                                                       /\ ~OfThisChat(r) /\ askFiles[r] = "pending" => askFiles'[r] = "pending"]_vars

\* a poll has sent the keyboard of the request whose chat id is a string,
\* beside a record already sent and a pending record of another chat
PollSkippedOthers == /\ query[1].askUserTriggered
                     /\ query[1].presented = <<"r2">>
                     /\ askFiles["r1"] = "sent"
                     /\ askFiles["r2"] = "sent"
                     /\ askFiles["r3"] = "pending"

(* --------------------------- suspended queries ------------------------- *)
\* the subprocess the query of handler t has spawned has exited with a
\* non-zero code
ExitedNonZero(t) == query[t].pid # NoProc /\ procs[query[t].pid].exitCode \notin {NULL, "0"}

\* a query whose poll has surfaced a request always ends by returning the
\* waiting outcome
SuspendedReturnsWaiting == \A t \in Tasks : query[t].askUserTriggered /\ Ended(query[t]) => query[t].pc = "returned" /\ query[t].ret = "waiting"

\* C23: once the poll of an ask-user tool_use has surfaced a pending request,
\* the query decodes no further stream line and raises no failure, whatever
\* the exit code of the subprocess; it returns the waiting outcome, or the
\* context-limit outcome when a too-long pattern was matched in this query.
SuspendedStopsDecoding == [][\A t \in Tasks : (query[t].askUserTriggered /\ query'[t].askUserTriggered) => /\ query'[t].lines = query[t].lines
                                                                                                         /\ query'[t].pc # "thrown"
                                                                                                         /\ query'[t].err = NoError
                                                                                                         /\ (query'[t].pc = "returned" => query'[t].ret = IF query'[t].promptTooLong THEN "context_limit" ELSE "waiting")]_vars

\* a suspended query has returned the waiting outcome although its
\* subprocess exited with a non-zero code
SuspendedDespiteExitCode == \E t \in Tasks : /\ query[t].askUserTriggered
                                             /\ query[t].pc = "returned"
                                             /\ query[t].ret = "waiting"
                                             /\ ExitedNonZero(t)

(* ------------------------------ interrupts ----------------------------- *)
\* the query of handler t was cancelled before it started
Cancelled(t) == task[t].kind \in TextKinds /\ task[t].pc \in {"cleanup", "done"} /\ query[t].pc = "thrown" /\ includesCancel(query[t].err)

AllDone == \A t \in Tasks : task[t].pc = "done"

\* the query of handler t was cancelled by a message with the "!" prefix,
\* before it started or while its subprocess ran, and the handler has finished
Interrupted(t) == task[t].pc = "done" /\ (query[t].interrupted \/ (Cancelled(t) /\ query[t].calledAfterInterrupt))

\* C24: a handler whose query was cancelled shows the "Query stopped" notice
\* exactly when the cancellation came from an explicit stop, and shows none
\* when it came from a message with the "!" prefix; the interrupt mark is
\* consumed by the cancellation it caused: none is left, to silence a later
\* stop, when the handler of the interrupted query has finished.
NoticeIffExplicitStop == /\ \A t \in Tasks : Cancelled(t) => (task[t].notice <=> query[t].calledAfterStop)
                         /\ \A t \in Tasks : Interrupted(t) => ~task[t].notice /\ ~session.wasInterruptedByNewMessage

(* --------------------------------- /new -------------------------------- *)
\* /new has replied and no subprocess has been spawned since
ClearedBy(t) == task[t].kind = "new" /\ task[t].pc = "done" /\ Len(procs) = task[t].spawnsBefore

\* C25: once /new has replied the session has no id, and keeps none until
\* the next query starts; the subprocess of that query is spawned without a
\* resume flag, also when a query was running at the time of /new.
NewStartsFresh == \A t \in Tasks : /\ ClearedBy(t) => session.sessionId = NULL
                                   /\ task[t].kind = "new" /\ task[t].pc = "done" /\ Len(procs) > task[t].spawnsBefore => procs[task[t].spawnsBefore + 1].resume = NULL

(* ---------------------------- context percent -------------------------- *)
\* the first model of the report of this result event
Reported == task.modelUsage.models[1]

HasReport == task.pc = "done" /\ task.modelUsage.present /\ task.modelUsage.models # <<>>

Window(m) == IF m.contextWindow \in {<<>>, <<0>>} THEN 200000 ELSE m.contextWindow[1]

Count(v) == IF v = <<>> THEN 0 ELSE v[1]

Total(m) == Count(m.inputTokens) + Count(m.outputTokens) + Count(m.cacheReadInputTokens) + Count(m.cacheCreationInputTokens)

\* 100 * total / window rounded to the nearest integer, a half going up
RoundedPercent(m) == (200 * Total(m) + Window(m)) \div (2 * Window(m))

\* 100 * total / window lies exactly half way between two integers
HalfWay(m) == (200 * Total(m)) % (2 * Window(m)) = Window(m)

\* after a result event with a usage report contextPercent is
\* round(100 * total / window) of the first model
PercentIsRounded == HasReport => session.contextPercent = RoundedPercent(Reported)

\* C26: after a result event with a usage report contextPercent is
\* round(100 * total / window) of the first reported model, the window being
\* 200000 when none is reported, except that a value exactly half way
\* between two integers may be rounded down, the quotient and the product
\* being rounded to doubles first; 50000 input and 10000 output tokens in a
\* window of 200000 give 30.
PercentIsRoundedDouble == HasReport => /\ session.contextPercent \in {RoundedPercent(Reported), RoundedPercent(Reported) - 1}
                                       /\ ~HalfWay(Reported) => session.contextPercent = RoundedPercent(Reported)
                                       /\ Total(Reported) = 60000 /\ Window(Reported) = 200000 => session.contextPercent = 30

\* the example of the claim, with no window reported and a second model
PercentOfExample == /\ HasReport
                    /\ Len(task.modelUsage.models) = 2
                    /\ Reported = [inputTokens |-> <<50000>>, outputTokens |-> <<10000>>, cacheReadInputTokens |-> <<>>, cacheCreationInputTokens |-> <<0>>, contextWindow |-> <<>>]
                    /\ session.contextPercent = 30

(* ----------------------------- sink failures --------------------------- *)
\* C27: a failure of the delivery sink or of the ask-user poll called from
\* the decode loop does not make the query fail: a query whose poll could
\* not read the temp directory does not throw for it, and lastError is not
\* set.
PollFailureIgnored == \A t \in Tasks : ~readable(askFiles) /\ query[t].pc = "thrown" => query[t].err.kind # "ENOENT" /\ session.lastError # "ENOENT"

(* ------------------------------- the queue ----------------------------- *)
\* the handlers of text messages that are between the queue test and their
\* cleanup
TextInFlight == {t \in Tasks : task[t].kind \in TextKinds /\ task[t].pc \in {"call", "await", "cleanup"}}

\* the messages handler t has passed the queue test with
Submitted(t) == {task[t].submitted[i] : i \in 1..Len(task[t].submitted)}

\* every handler has returned and nothing is running
Quiet == AllDone /\ ~isRunning(session)

\* C28: a text message that arrives while the session is running is not
\* submitted beside the running request: no two text handlers are past the
\* queue test at once, no message passes it twice, and when every handler
\* has returned no message is left in the queue.
QueuedThenProcessed == /\ Cardinality(TextInFlight) <= 1
                       /\ \A t \in Tasks : Cardinality(Submitted(t)) = Len(task[t].submitted)
                       /\ \A t, u \in Tasks : t # u => Submitted(t) \cap Submitted(u) = {}
                       /\ Quiet => session.queue = <<>>

(* ------------------------------- exit codes ---------------------------- *)
\* the query of handler t has thrown the error of the exit code check
ExitFailure(t) == query[t].pc = "thrown" /\ query[t].err.kind = "exited with code"

\* what the subprocess of handler t wrote to stderr, up to 200 characters
StderrOf(t) == IF query[t].stderrChunks = <<>> THEN "" ELSE query[t].stderrChunks[1]

\* C29: a query whose read loop has ended and whose subprocess exited with a
\* non-zero code, with no stop and no ask suspension in effect, throws the
\* error that carries the exit code and the stderr text, and lastError is
\* set; a query that was stopped or suspended throws no such error.
ExitCodeFailure == \A t \in Tasks : Ended(query[t]) /\ ExitedNonZero(t) /\ query[t].err.kind # "CLI error" =>
                                        IF query[t].stopped \/ query[t].askUserTriggered
                                        THEN ~ExitFailure(t)
                                        ELSE ExitFailure(t) /\ query[t].err.msg = StderrOf(t) /\ session.lastError = "exited with code"

(* ------------------------------ resume flag ---------------------------- *)
\* this step spawns a subprocess
Spawning == Len(procs') = Len(procs) + 1

\* the resume flag of the subprocess this step spawns
SpawnedResume == procs'[Len(procs')].resume

\* /new has replied and this step spawns the first subprocess since
FirstAfterReset == \E t \in Tasks : ClearedBy(t)

\* the subprocess is spawned with the id the session has at that time
ResumeIffSessionId == [][Spawning => SpawnedResume = session.sessionId]_vars

\* C30: a subprocess is spawned with the resume flag carrying S exactly when
\* the session's id is S at the time of the spawn, and with no resume flag
\* when the session has no id; the first subprocess spawned after a reset
\* has no resume flag.
ResumesSessionAtSpawn == [][Spawning => /\ SpawnedResume = session.sessionId
                                        /\ FirstAfterReset => SpawnedResume = NULL]_vars

(* --------------------------------- stop() ------------------------------ *)
\* this step is the call of stop() by the handler of /stop or the Stop button
StopCalled == \E t \in Tasks : task[t].pc = "new" /\ task'[t].kind \in StopKinds

\* a query is running and the session holds its subprocess
HoldsSubprocess == session.isQueryRunning /\ session.childProcess # NoProc

\* a query is running and its subprocess is alive
LiveSubprocess == HoldsSubprocess /\ procs[session.childProcess].state = "alive"

\* this step sets the stop flag and leaves the rest of the session as it is
FlagSet == session' = [session EXCEPT !.stopRequested = TRUE]

\* this step signals the subprocess of the session, if it is still alive
TreeKilled == procs' = [procs EXCEPT ![session.childProcess].killed = @ \/ procs[session.childProcess].state = "alive"]

\* C31 as stated: stop() returns "stopped", sets the flag and kills the tree
\* exactly when a query is running with a live subprocess; otherwise it
\* returns "pending" and sets the flag exactly when processing is claimed;
\* otherwise it returns false and changes nothing.
StopByLiveSubprocess == [][StopCalled => CASE LiveSubprocess -> stopResult(session) = "stopped" /\ FlagSet /\ TreeKilled
                                           [] ~LiveSubprocess /\ session.isProcessing -> stopResult(session) = "pending" /\ FlagSet /\ procs' = procs
                                           [] OTHER -> stopResult(session) = "false" /\ session' = session /\ procs' = procs]_vars

\* C31: stop() returns "stopped", sets the stop flag and signals the
\* subprocess tree exactly when a query is running and the session holds its
\* subprocess, whether or not that subprocess has already exited; otherwise
\* it returns "pending" and sets the flag exactly when processing has been
\* claimed; otherwise it returns false and leaves session and subprocesses
\* unchanged.
StopByHeldSubprocess == [][StopCalled => CASE HoldsSubprocess -> stopResult(session) = "stopped" /\ FlagSet /\ TreeKilled
                                           [] ~HoldsSubprocess /\ session.isProcessing -> stopResult(session) = "pending" /\ FlagSet /\ procs' = procs
                                           [] OTHER -> stopResult(session) = "false" /\ session' = session /\ procs' = procs]_vars

\* /stop has stopped a running query: the flag is set, the subprocess signalled
StopKilledSubprocess == \E t \in Tasks : /\ task[t].kind \in StopKinds /\ task[t].pc = "sleep"
                                         /\ session.stopRequested /\ session.childProcess # NoProc
                                         /\ procs[session.childProcess].killed

(* ------------------------------ text updates --------------------------- *)
\* the text updates of the query that are for the segment of update i and
\* came before it
EarlierOf(i) == {j \in 1..(i - 1) : task.calls[j].seg = task.calls[i].seg}

\* the earlier updates of the segment of update i that reached the chat
DeliveredBefore(i) == {j \in EarlierOf(i) : task.calls[j].delivered # "none"}

\* the update of the segment last delivered before update i
LastDelivered(i) == CHOOSE j \in DeliveredBefore(i) : \A k \in DeliveredBefore(i) : k <= j

\* C32: every text update passed to the sink carries a segment text of more
\* than 20 characters; two updates of one segment are more than
\* STREAMING_THROTTLE_MS apart; the first update of a segment that the chat
\* accepts creates its message, and a later one edits it only if its content
\* differs from the content last delivered for the segment.
TextUpdatesThrottled == \A i \in 1..Len(task.calls) :
                            /\ Len(task.calls[i].content) > MIN_TEXT_LENGTH
                            /\ \A j \in EarlierOf(i) : task.calls[i].at - task.calls[j].at > STREAMING_THROTTLE_MS
                            /\ DeliveredBefore(i) = {} => task.calls[i].delivered = IF task.calls[i].outcome = "ok" THEN "reply" ELSE "none"
                            /\ DeliveredBefore(i) # {} => /\ task.calls[i].delivered # "reply"
                                                          /\ task.calls[i].delivered = "edit" => task.calls[i].formatted # task.calls[LastDelivered(i)].formatted

\* a segment has had its message created, an update skipped because its
\* content was the one last delivered, and a later update delivered
SegmentUpdatedTwice == \E i, j, k \in 1..Len(task.calls) : /\ i < j /\ j < k
                                                           /\ task.calls[i].seg = task.calls[j].seg /\ task.calls[j].seg = task.calls[k].seg
                                                           /\ task.calls[i].delivered = "reply"
                                                           /\ task.calls[j].delivered = "none" /\ task.calls[j].formatted = task.calls[i].formatted
                                                           /\ task.calls[k].delivered = "edit"

(* -------------------------------- new turn ----------------------------- *)
\* this step decodes an assistant event of another turn than the current one
NewTurnStep(t) == /\ query[t].pc = "reading"
                  /\ query'[t].lines = query[t].lines + 1
                  /\ query'[t].lastEvent.type = "assistant"
                  /\ query'[t].currentMsgId = query'[t].lastEvent.id
                  /\ query'[t].currentMsgId # query[t].currentMsgId

\* the texts of the text blocks of a content, one after the other
RECURSIVE FullText(_)
FullText(content) == IF content = <<>> THEN <<>>
                     ELSE (IF Head(content).type = "text" THEN Text(Head(content).len) ELSE <<>>) \o FullText(Tail(content))

\* the emissions this step adds
Emitted(t) == SubSeq(query'[t].emits, Len(query[t].emits) + 1, Len(query'[t].emits))

\* C33: an assistant event of another turn than the current one has the
\* whole text of each of its text blocks appended to the response buffer and
\* the whole of each thinking block emitted, whatever the turn before left
\* at these positions, while a tool_use id processed in an earlier turn gets no
\* further status emission and no further segment boundary.
NewTurnStartsFromEmpty == [][\A t \in Tasks : NewTurnStep(t) =>
                               LET content == query'[t].lastEvent.content
                               IN /\ query'[t].responseParts = query[t].responseParts \o FullText(content)
                                  /\ \A i \in 1..Len(content) : content[i].type = "thinking" => \E j \in 1..Len(Emitted(t)) : Emitted(t)[j].kind = "thinking" /\ Emitted(t)[j].content = Text(content[i].len)
                                  /\ \A i \in 1..Len(content) : content[i].type = "tool_use" /\ content[i].id \in query[t].processedToolIds =>
                                           /\ \A j \in 1..Len(Emitted(t)) : Emitted(t)[j].kind \notin {"tool", "segment_end"}
                                           /\ query'[t].boundaries = query[t].boundaries]_vars

\* the second turn of a query has repeated, at the positions of the first,
\* a text of the same length and a tool_use of the same id
SecondTurnRepeatsFirst == \E t \in Tasks : /\ query[t].lines = 2
                                           /\ query[t].currentMsgId = "m2"
                                           /\ query[t].lastEvent.content = <<ShortText, [type |-> "tool_use", len |-> 0, id |-> 1, ask |-> FALSE]>>
                                           /\ Len(query[t].responseParts) = 2
                                           /\ ToolStatusCount(query[t], 1) = 1

(* --------------------------- range of the percent ---------------------- *)
\* C34: contextPercent is null or an integer from 0 to 100, whatever usage
\* the result event reports.
ContextPercentInRange == IF HasReport THEN session.contextPercent \in 0..100 ELSE session.contextPercent = NULL

(* ------------------------- the running subprocess ---------------------- *)
\* C35: while a subprocess spawned by sendMessageStreaming is alive,
\* isQueryRunning is true and childProcess is that subprocess, so that
\* stop() signals it; no start and no cleanup of another query clears or
\* replaces the two fields before the subprocess has exited.
AliveSubprocessHeld == \A p \in 1..Len(procs) : procs[p].state = "alive" => session.isQueryRunning /\ session.childProcess = p

(* ------------------------------ termination ---------------------------- *)
\* C36: a started query returns or throws once its subprocess has exited and
\* closed its streams, for every exit code and for a kill by a signal, in
\* whichever order the stream end and the close event come; so no query is
\* left waiting for the close event of a subprocess that has already closed,
\* an event that will not come again.
NoWaitForPastClose == \A t \in Tasks : query[t].pc = "waitclose" => procs[query[t].watch].state # "closed"

(* --------------------------- working directory ------------------------- *)
\* this step saves the session whose id the query of handler t has just
\* read from its subprocess
SavedBy(t) == history' # history /\ query'[t].lines = query[t].lines + 1

\* the history entry this step has written
SavedEntry == history'.sessions[CHOOSE i \in 1..Len(history'.sessions) : history'.sessions[i].saved_at = history'.clock]

\* C37: the history entry of a session records as working_dir the
\* directory in which the subprocess that reported the session was spawned,
\* also when the project is switched while the query runs.
SavedInSpawnDirectory == [][\A t \in Tasks : SavedBy(t) => SavedEntry.working_dir = procs[query[t].pid].cwd]_vars

(* ------------------------- text of one turn ---------------------------- *)
\* this step decodes the second line of the query, an assistant event of the
\* turn of the first
SecondEventOfTurn(t) == /\ query[t].pc = "reading"
                        /\ query[t].lines = 1 /\ query'[t].lines = 2
                        /\ query[t].lastEvent.type = "assistant" /\ query'[t].lastEvent.type = "assistant"
                        /\ query[t].lastEvent.id = query'[t].lastEvent.id

\* the length the text block at position i of the second content had in the
\* first: 0 when the position held no text block there
LengthBefore(first, i) == IF i <= Len(first) /\ first[i].type = "text" THEN first[i].len ELSE 0

\* no text block of the second content is shorter than it was in the first
OnlyGrows(first, second) == \A i \in 1..Len(second) : second[i].type = "text" => second[i].len >= LengthBefore(first, i)

\* what the text blocks of the second content add to what the first held,
\* from position i on
RECURSIVE Growth(_, _, _)
Growth(first, second, i) == IF i > Len(second) THEN <<>>
                            ELSE (IF second[i].type = "text" THEN Slice(Text(second[i].len), LengthBefore(first, i)) ELSE <<>>) \o Growth(first, second, i + 1)

\* C38: in a turn whose text blocks only grow, the response buffer receives
\* of each text block exactly the characters it has not received of that
\* block before, so that it holds each block's final text once, whichever
\* block types stood at the block's position in earlier events of the turn.
TextOfTurnOnce == [][\A t \in Tasks : SecondEventOfTurn(t) /\ OnlyGrows(query[t].lastEvent.content, query'[t].lastEvent.content)
                                        => query'[t].responseParts = query[t].responseParts \o Growth(query[t].lastEvent.content, query'[t].lastEvent.content, 1)]_vars

(* --------------------------- one stop, one query ----------------------- *)
\* the call of handler t was cancelled before it spawned anything
CancelledBeforeStart(t) == query[t].pc = "thrown" /\ query[t].err.kind = "Query cancelled" /\ query[t].pid = NoProc

\* C39: a stop request that has stopped a running query does not stay in
\* effect: a call is cancelled before its start only if stop() was answered
\* "pending" since the call before it, never by the stop of a running query.
StopCancelsOneQuery == \A t \in Tasks : CancelledBeforeStart(t) => query[t].calledAfterPending

(* ------------------------------ cleanup -------------------------------- *)
\* C40: when a call of sendMessageStreaming that spawned a subprocess has
\* returned or thrown and no other query is in flight, isQueryRunning is
\* false and childProcess, queryStarted and currentTool are null, whatever
\* the outcome.
CleanAfterQuery == \A t \in Tasks : /\ Ended(query[t]) /\ query[t].pid # NoProc
                                    /\ \A u \in Tasks : ~InFlight(u)
                                    => ~session.isQueryRunning /\ session.childProcess = NoProc /\ session.queryStarted = NULL /\ session.currentTool = NULL

\* a query that had decoded a tool_use has failed on the exit code of its
\* subprocess, and no other query is in flight
FailedAfterTool == \E t \in Tasks : /\ query[t].pc = "thrown" /\ query[t].err.kind = "exited with code"
                                    /\ query[t].toolSeen # {}
                                    /\ \A u \in Tasks : ~InFlight(u)

====
